---------------------------- MODULE Spec2Model ----------------------------
(***************************************************************************)
(* Model of the Pennyworth chat assistant:                                 *)
(*   - TrelloWorkflow.parse_command   (src/src/trello_workflows.py)        *)
(*   - TrelloWorkflow's name -> object cache and its backend operations    *)
(*   - the chat handlers !ai, !summarize and !trello   (src/main.py)       *)
(*   - the methods of AIAssistant   (src/src/ai_assistant.py)              *)
(*   - BitwardenSecretManager._authenticate   (src/src/secrets.py)         *)
(*   - the !ai handler of PennyworthBot   (src/src/bot.py)                 *)
(*   - two invocations sharing the cache of one TrelloWorkflow             *)
(* Strings are sequences of one-character strings, so that strip, split    *)
(* and lower are computed the way the Python code computes them.           *)
(***************************************************************************)
EXTENDS Integers, Sequences, FiniteSets, TLC

VARIABLES
    command_text,     \* the argument handed to parse_command
    parsed,           \* Pending before the call, afterwards its outcome
    boards,           \* backend: the boards, in list_boards() order
    lists,            \* backend: the lists of all boards, in list_lists() order
    cards,            \* backend: the cards
    cache_boards,     \* self._cache['boards']: board_name -> Board
    cache_lists,      \* self._cache['lists']: "board:list" -> List
    channel_mapping,  \* self.channel_mapping: board id -> channel id
    returned,         \* history: the boards and lists the backend has handed out
    last,             \* history: the last completed operation and its outcome
    message,          \* the inbound chat message a handler is invoked with
    handled,          \* Unhandled before the handler runs, afterwards its outcome
    call,             \* a method call outside the workflow: the method, its inputs
    outcome,          \* NoOutcome before that call runs, afterwards its outcome
    race              \* two concurrent invocations: where each stands, what it holds

parse_vars == <<command_text, parsed>>
backend_vars == <<boards, lists, cards>>
workflow_vars == <<cache_boards, cache_lists, channel_mapping, returned, last>>
chat_vars == <<message, handled>>
method_vars == <<call, outcome>>
vars == <<command_text, parsed, boards, lists, cards, cache_boards, cache_lists,
          channel_mapping, returned, last, message, handled, call, outcome, race>>

\* parse_command has not been called yet
Pending == [done |-> FALSE]

\* no handler has been invoked yet / no message has come in
Unhandled == [done |-> FALSE]
NoMessage == [text |-> <<>>, channel |-> "", history |-> 0]

\* no method call is under way
NoCall == [method |-> ""]
NoOutcome == [done |-> FALSE]

\* no concurrent invocations
NoRace == [threads |-> <<>>]

(***************************************************************************)
(* Bounds of the model.                                                    *)
(***************************************************************************)
MaxChunks == 5      \* pieces a generated command remainder is built from
MaxOps    == 2      \* operations called on one TrelloWorkflow
MaxChatChunks == 3  \* pieces the text after a chat command word is built from

(***************************************************************************)
(* Python string primitives.                                               *)
(***************************************************************************)
SP  == " "
TAB == "\t"

\* str.isspace() on the characters the model generates
Whitespace == {SP, TAB}

UpperLetters == <<"A", "B", "C", "M", "T">>
LowerLetters == <<"a", "b", "c", "m", "t">>

\* str.lower() on one character
LowerChar(c) ==
    IF \E i \in 1..Len(UpperLetters) : UpperLetters[i] = c
    THEN LowerLetters[CHOOSE i \in 1..Len(UpperLetters) : UpperLetters[i] = c]
    ELSE c

\* str.lower()
Lower(s) == [i \in 1..Len(s) |-> LowerChar(s[i])]

\* s[a:b] with 1-based inclusive positions, empty when a > b
Slice(s, a, b) == IF a > b THEN <<>> ELSE SubSeq(s, a, b)

\* str.strip(): drop leading and trailing whitespace
Strip(s) ==
    LET keep == {i \in 1..Len(s) : s[i] \notin Whitespace}
    IN  IF keep = {} THEN <<>>
        ELSE LET lo == CHOOSE i \in keep : \A j \in keep : i <= j
                 hi == CHOOSE i \in keep : \A j \in keep : j <= i
             IN  SubSeq(s, lo, hi)

\* sep occurs in s at position i
OccursAt(s, sep, i) ==
    /\ i >= 1
    /\ i + Len(sep) - 1 <= Len(s)
    /\ SubSeq(s, i, i + Len(sep) - 1) = sep

\* `sep in s`
Contains(s, sep) == \E i \in 1..Len(s) : OccursAt(s, sep, i)

\* str.find(sep) + 1, 0 when absent
Find(s, sep) ==
    IF Contains(s, sep)
    THEN CHOOSE i \in 1..Len(s) :
            /\ OccursAt(s, sep, i)
            /\ \A j \in 1..(i - 1) : ~OccursAt(s, sep, j)
    ELSE 0

\* str.split(sep) with no maxsplit: every occurrence splits
RECURSIVE SplitAll(_, _)
SplitAll(s, sep) ==
    LET i == Find(s, sep)
    IN  IF i = 0 THEN <<s>>
        ELSE <<Slice(s, 1, i - 1)>> \o SplitAll(Slice(s, i + Len(sep), Len(s)), sep)

\* str.split(sep, 1): at most one split, at the first occurrence
Split1(s, sep) ==
    LET i == Find(s, sep)
    IN  IF i = 0 THEN <<s>>
        ELSE <<Slice(s, 1, i - 1), Slice(s, i + Len(sep), Len(s))>>

(***************************************************************************)
(* parse_command                                                           *)
(***************************************************************************)
sCreate  == <<"c", "r", "e", "a", "t", "e">>
sMove    == <<"m", "o", "v", "e">>
sComment == <<"c", "o", "m", "m", "e", "n", "t">>
sLists   == <<"l", "i", "s", "t", "s">>
sBoards  == <<"b", "o", "a", "r", "d", "s">>
sIn      == <<" ", "i", "n", " ">>
sTo      == <<" ", "t", "o", " ">>
sToDo    == <<"T", "o", " ", "D", "o">>
sSpace   == <<" ">>

NoArgs == [k \in {} |-> <<>>]

\* The outcome of a call: a returned (command, args) pair or a raised exception
Returned(command, args) ==
    [done |-> TRUE, raised |-> FALSE, command |-> command, args |-> args]
Raised(exc) == [done |-> TRUE, raised |-> TRUE, exc |-> exc]

\* What a sub-grammar leaves behind: the argument map, or a raised exception
Args(args) == [exc |-> "", args |-> args]
Fails(exc) == [exc |-> exc, args |-> NoArgs]

\* a, b = parts : ValueError unless parts has exactly two elements
Unpacks(parts) == Len(parts) = 2

TitleAndList(title, list) ==
    [k \in {"card_title", "list_name"} |-> IF k = "card_title" THEN title ELSE list]

IdAndList(id, list) ==
    [k \in {"card_id", "list_name"} |-> IF k = "card_id" THEN id ELSE list]

IdAndComment(id, comment) ==
    [k \in {"card_id", "comment_text"} |-> IF k = "card_id" THEN id ELSE comment]

\* the "create" sub-grammar with the two strip() calls left out
create_args_nostrip(remainder) ==
    IF Contains(remainder, sIn)
    THEN LET parts == Split1(remainder, sIn)
         IN  IF Unpacks(parts)
             THEN Args(TitleAndList(parts[1], parts[2]))
             ELSE Fails("ValueError")
    ELSE Args(TitleAndList(remainder, sToDo))

\* the "create" sub-grammar with the default list name left out
create_args_nodefault(remainder) ==
    IF Contains(remainder, sIn)
    THEN LET parts == Split1(remainder, sIn)
         IN  IF Unpacks(parts)
             THEN Args(TitleAndList(Strip(parts[1]), Strip(parts[2])))
             ELSE Fails("ValueError")
    ELSE Args([k \in {"card_title"} |-> remainder])

\* the "create" sub-grammar with split(" in ") in place of split(" in ", 1)
create_args_splitall(remainder) ==
    IF Contains(remainder, sIn)
    THEN LET parts == SplitAll(remainder, sIn)
         IN  IF Unpacks(parts)
             THEN Args(TitleAndList(Strip(parts[1]), Strip(parts[2])))
             ELSE Fails("ValueError")
    ELSE Args(TitleAndList(remainder, sToDo))

\* the "create" sub-grammar
create_args(remainder) ==
    IF Contains(remainder, sIn)
    THEN LET parts == Split1(remainder, sIn)
         IN  IF Unpacks(parts)
             THEN Args(TitleAndList(Strip(parts[1]), Strip(parts[2])))
             ELSE Fails("ValueError")
    ELSE Args(TitleAndList(remainder, sToDo))

\* the "lists" sub-grammar
lists_args(remainder) == Args([k \in {"board_name"} |-> remainder])

\* the "comment" sub-grammar
comment_args(remainder) ==
    LET comment_parts == Split1(remainder, sSpace)
    IN  IF Len(comment_parts) >= 2
        THEN Args(IdAndComment(Strip(comment_parts[1]), Strip(comment_parts[2])))
        ELSE Args(NoArgs)

\* the "move" sub-grammar with the two strip() calls left out
move_args_nostrip(remainder) ==
    IF Contains(remainder, sTo)
    THEN LET parts == Split1(remainder, sTo)
         IN  IF Unpacks(parts)
             THEN Args(IdAndList(parts[1], parts[2]))
             ELSE Fails("ValueError")
    ELSE Args(NoArgs)

\* the "move" sub-grammar
move_args(remainder) ==
    IF Contains(remainder, sTo)
    THEN LET parts == Split1(remainder, sTo)
         IN  IF Unpacks(parts)
             THEN Args(IdAndList(Strip(parts[1]), Strip(parts[2])))
             ELSE Fails("ValueError")
    ELSE Args(NoArgs)

\* the if/elif chain over the command name
sub_grammar(command, remainder) ==
    IF command = sCreate THEN create_args(remainder)
    ELSE IF command = sLists THEN lists_args(remainder)
    ELSE IF command = sComment THEN comment_args(remainder)
    ELSE IF command = sMove THEN move_args(remainder)
    ELSE Args(NoArgs)

\* parse_command without the strip() of line 441: the sub-grammar sees parts[1]
\* as split(' ', 1) left it
parse_command_remainder_unstripped(text) ==
    LET parts == Split1(Strip(text), sSpace)
    IN  IF Len(parts) = 0 THEN Raised("IndexError")
        ELSE LET command == Lower(parts[1])
                 got == IF Len(parts) > 1
                        THEN sub_grammar(command, parts[2])
                        ELSE Args(NoArgs)
             IN  IF got.exc # "" THEN Raised(got.exc)
                 ELSE Returned(command, got.args)

\* parse_command(command_text): parts[0] raises IndexError on an empty list
parse_command(text) ==
    LET parts == Split1(Strip(text), sSpace)
    IN  IF Len(parts) = 0 THEN Raised("IndexError")
        ELSE LET command == Lower(parts[1])
                 got == IF Len(parts) > 1
                        THEN sub_grammar(command, Strip(parts[2]))
                        ELSE Args(NoArgs)
             IN  IF got.exc # "" THEN Raised(got.exc)
                 ELSE Returned(command, got.args)

(***************************************************************************)
(* The task-board backend as TrelloWorkflow sees it, and the outcome of a  *)
(* method call.  A method runs on a record st holding the backend, the     *)
(* caches, the backend calls issued so far (st.calls) and the position of  *)
(* the backend call that raises (st.fail, 0 for none).                     *)
(***************************************************************************)
None == [none |-> TRUE]

sColon == <<":">>

\* {'success': False, 'error': ...}
Failure(error) == [success |-> FALSE, error |-> error]

\* a backend call is issued
Issue(st, op, arg) == [st EXCEPT !.calls = Append(@, [op |-> op, arg |-> arg])]

\* the backend call just issued raises
Raises(st) == st.fail = Len(st.calls)

\* the method returns v / an exception leaves the method
Ret(st, v) == [st |-> st, raised |-> FALSE, value |-> v]
Exc(st) == [st |-> st, raised |-> TRUE, value |-> None]

\* a try block with no except clause that matches: the exception goes on
TryUncaught(r) == r

\* an except clause that also empties both caches
TryInvalidating(r) ==
    IF r.raised
    THEN [st |-> [r.st EXCEPT !.cache_boards = [x \in {} |-> 0],
                              !.cache_lists = [x \in {} |-> 0]],
          raised |-> FALSE, value |-> [success |-> FALSE, error |-> "str(e)"]]
    ELSE r

\* try: ... except Exception as e: return {'success': False, 'error': str(e)}
Try(r) == IF r.raised THEN Ret(r.st, Failure("str(e)")) ELSE r

\* try: ... except Exception: return []
TryEmptyList(r) == IF r.raised THEN Ret(r.st, <<>>) ELSE r

\* d[k] = v
Put(d, k, v) == [x \in DOMAIN d \cup {k} |-> IF x = k THEN v ELSE d[x]]

Range(seq) == {seq[i] : i \in 1..Len(seq)}

\* position of the first element of seq whose name equals name ignoring case
FirstMatch(seq, name) ==
    LET hits == {i \in 1..Len(seq) : Lower(seq[i].name) = Lower(name)}
    IN  IF hits = {} THEN 0 ELSE CHOOSE i \in hits : \A j \in hits : i <= j

\* board.list_lists(): the lists of one board
ListsOf(st, board_id) == SelectSeq(st.lists, LAMBDA l : l.board = board_id)

\* lst.list_cards(): the open cards of one list
CardsOf(st, list_id) == SelectSeq(st.cards, LAMBDA c : c.list = list_id /\ ~c.closed)

\* board.get_labels(): every board carries the same two labels
BoardLabels == <<[id |-> 1, name |-> <<"b">>], [id |-> 2, name |-> <<"B">>]>>

SawBoards(st, bs) == [st EXCEPT !.returned.boards = @ \cup bs]
SawLists(st, ls) == [st EXCEPT !.returned.lists = @ \cup ls]

(***************************************************************************)
(* Due dates.  The due date of a backend card is an instant on a time line *)
(* counted in days, NoDue for no due date and BadDue for a due-date text   *)
(* the scan cannot parse.  The due_date argument of create_card is a text. *)
(***************************************************************************)
NoDue == 0
BadDue == -1

Digits == <<"0", "1", "2", "3", "4", "5", "6", "7", "8", "9">>
sDash == <<"-">>

IsDigit(c) == \E i \in 1..Len(Digits) : Digits[i] = c
DigitValue(c) == (CHOOSE i \in 1..Len(Digits) : Digits[i] = c) - 1
AllDigits(s) == \A i \in 1..Len(s) : IsDigit(s[i])

\* int(s) for a text of digits
RECURSIVE Number(_)
Number(s) ==
    IF s = <<>> THEN 0
    ELSE 10 * Number(SubSeq(s, 1, Len(s) - 1)) + DigitValue(s[Len(s)])

\* calendar.monthrange(year, month)[1]
DaysInMonth(year, month) ==
    IF month = 2
    THEN (IF year % 4 = 0 /\ (year % 100 # 0 \/ year % 400 = 0) THEN 29 ELSE 28)
    ELSE IF month \in {4, 6, 9, 11} THEN 30 ELSE 31

\* the directives of strptime: %Y is four digits, %m and %d are one or two
\* digits, with or without a leading zero; %d also takes a space for the zero
DayText(f) == IF Len(f) = 2 /\ f[1] = " " THEN Tail(f) ELSE f
YearField(f) == Len(f) = 4 /\ AllDigits(f) /\ Number(f) >= 1
MonthField(f) == Len(f) \in {1, 2} /\ AllDigits(f) /\ Number(f) \in 1..12
DayField(f, year, month) ==
    /\ Len(f) \in {1, 2}
    /\ AllDigits(DayText(f))
    /\ Number(DayText(f)) \in 1..DaysInMonth(year, month)

\* datetime.strptime(due_date, "%Y-%m-%d") succeeds
strptime_ok(due_date) ==
    /\ Len(SplitAll(due_date, sDash)) = 3
    /\ YearField(SplitAll(due_date, sDash)[1])
    /\ MonthField(SplitAll(due_date, sDash)[2])
    /\ DayField(SplitAll(due_date, sDash)[3], Number(SplitAll(due_date, sDash)[1]),
                Number(SplitAll(due_date, sDash)[2]))

\* the time line starts with the year 2024 and counts every month as 31 days
FirstYear == 2024
Instant(year, month, day) == (year - FirstYear) * 372 + (month - 1) * 31 + day

\* the instant of the date strptime yields
strptime_day(due_date) ==
    Instant(Number(SplitAll(due_date, sDash)[1]), Number(SplitAll(due_date, sDash)[2]),
            Number(DayText(SplitAll(due_date, sDash)[3])))

\* due_date arguments: 2024-01-03, 2024-1-3 and 2024-13-03
sGoodDate     == <<"2", "0", "2", "4", "-", "0", "1", "-", "0", "3">>
sUnpaddedDate == <<"2", "0", "2", "4", "-", "1", "-", "3">>
sBadDate      == <<"2", "0", "2", "4", "-", "1", "3", "-", "0", "3">>

(***************************************************************************)
(* The operations of TrelloWorkflow.  A method is a chain of operators,    *)
(* one per backend call: each takes the record the previous one left.      *)
(***************************************************************************)
CacheKey(board_name, list_name) == board_name \o sColon \o list_name

\* ---- get_board(board_name)

\* lines 61-67 with the name that was not found cached as well
get_board_match_caching_miss(st, board_name, i) ==
    IF i # 0
    THEN Ret([st EXCEPT !.cache_boards = Put(@, board_name, st.boards[i])],
             st.boards[i])
    ELSE Ret([st EXCEPT !.cache_boards =
                  Put(@, board_name, [id |-> 0, name |-> board_name])], None)

\* lines 61-67: the loop over all_boards
get_board_match(st, board_name, i) ==
    IF i # 0
    THEN Ret([st EXCEPT !.cache_boards = Put(@, board_name, st.boards[i])],
             st.boards[i])
    ELSE Ret(st, None)

\* line 60, once list_boards() has been issued
get_board_fetched(st, board_name) ==
    IF Raises(st) THEN Exc(st)
    ELSE get_board_match(SawBoards(st, Range(st.boards)), board_name,
                         FirstMatch(st.boards, board_name))

\* the cache test of lines 56-57, always failing
InBoardCacheNever(st, board_name) == FALSE

\* lines 56-57: board_name in self._cache['boards']
InBoardCache(st, board_name) == board_name \in DOMAIN st.cache_boards

get_board(st, board_name) ==
    IF InBoardCache(st, board_name)
    THEN Ret(st, st.cache_boards[board_name])
    ELSE get_board_fetched(Issue(st, "list_boards", 0), board_name)

\* ---- get_list(board_name, list_name)

\* lines 88-94: the loop over board.list_lists()
get_list_match(st, ls, cache_key, list_name) ==
    IF FirstMatch(ls, list_name) # 0
    THEN Ret([st EXCEPT !.cache_lists =
                  Put(@, cache_key, ls[FirstMatch(ls, list_name)])],
             ls[FirstMatch(ls, list_name)])
    ELSE Ret(st, None)

\* line 88, once list_lists() has been issued
get_list_fetched(st, board, cache_key, list_name) ==
    IF Raises(st) THEN Exc(st)
    ELSE get_list_match(SawLists(st, Range(ListsOf(st, board.id))),
                        ListsOf(st, board.id), cache_key, list_name)

\* lines 84-88, once get_board has returned or raised
get_list_board(rb, cache_key, list_name) ==
    IF rb.raised THEN rb
    ELSE IF rb.value = None THEN Ret(rb.st, None)
    ELSE get_list_fetched(Issue(rb.st, "list_lists", rb.value.id), rb.value,
                          cache_key, list_name)

get_list(st, board_name, list_name) ==
    IF CacheKey(board_name, list_name) \in DOMAIN st.cache_lists
    THEN Ret(st, st.cache_lists[CacheKey(board_name, list_name)])
    ELSE get_list_board(get_board(st, board_name),
                        CacheKey(board_name, list_name), list_name)

\* ---- create_card(board_name, list_name, title, description, labels, due_date)

\* the nested loops of lines 127-130 comparing the names as they are
RECURSIVE MatchingLabelsExact(_, _)
MatchingLabelsExact(labels, available) ==
    IF labels = <<>> THEN <<>>
    ELSE [i \in 1..Len(SelectSeq(available,
                    LAMBDA label : label.name = Head(labels))) |->
             SelectSeq(available, LAMBDA label : label.name = Head(labels))[i].id]
         \o MatchingLabelsExact(Tail(labels), available)

\* the (label_name, label) pairs of the nested loops of lines 127-130 that
\* match, in loop order, as the ids of the labels to attach
RECURSIVE MatchingLabels(_, _)
MatchingLabels(labels, available) ==
    IF labels = <<>> THEN <<>>
    ELSE [i \in 1..Len(SelectSeq(available,
                    LAMBDA label : Lower(label.name) = Lower(Head(labels)))) |->
             SelectSeq(available,
                 LAMBDA label : Lower(label.name) = Lower(Head(labels)))[i].id]
         \o MatchingLabels(Tail(labels), available)

\* line 130: card.add_label(label) for each id in turn
RECURSIVE add_labels(_, _)
RECURSIVE add_labels_issued(_, _)
add_labels(st, ids) ==
    IF ids = <<>> THEN Ret(st, None)
    ELSE add_labels_issued(Issue(st, "add_label", Head(ids)), Tail(ids))

add_labels_issued(st, rest) ==
    IF Raises(st) THEN Exc(st) ELSE add_labels(st, rest)

\* lines 125-130, once get_labels() has been issued
create_card_labels_fetched(st, labels) ==
    IF Raises(st) THEN Exc(st)
    ELSE add_labels(st, MatchingLabels(labels, BoardLabels))

\* lines 124-125, once get_board has returned or raised; None.get_labels()
\* raises AttributeError
create_card_labels_board(rb, labels) ==
    IF rb.raised THEN rb
    ELSE IF rb.value = None THEN Exc(rb.st)
    ELSE create_card_labels_fetched(Issue(rb.st, "get_labels", rb.value.id), labels)

\* lines 122-130
create_card_labels(st, board_name, labels) ==
    IF labels = <<>> THEN Ret(st, None)
    ELSE create_card_labels_board(get_board(st, board_name), labels)

\* line 137, once set_due() has been issued on the card just created
create_card_due_set(st, day) ==
    IF Raises(st) THEN Exc(st)
    ELSE Ret([st EXCEPT !.cards[Len(st.cards)].due = day], None)

\* lines 132-139 without the except clause of line 138: the ValueError of
\* strptime leaves the block
create_card_due_uncaught(st, due_date) ==
    IF due_date = <<>> THEN Ret(st, None)
    ELSE IF ~strptime_ok(due_date) THEN Exc(st)
    ELSE create_card_due_set(Issue(st, "set_due", strptime_day(due_date)),
                             strptime_day(due_date))

\* lines 132-139; a ValueError of strptime is caught there
create_card_due(st, due_date) ==
    IF due_date = <<>> THEN Ret(st, None)
    ELSE IF ~strptime_ok(due_date) THEN Ret(st, None)
    ELSE create_card_due_set(Issue(st, "set_due", strptime_day(due_date)),
                             strptime_day(due_date))

\* card.url
CardUrl(card_id) == [url |-> card_id]

\* lines 141-147
create_card_finish(r) ==
    IF r.raised THEN r
    ELSE Ret(r.st, [success |-> TRUE, card_id |-> Len(r.st.cards),
                    card_url |-> CardUrl(Len(r.st.cards)),
                    card_name |-> r.st.cards[Len(r.st.cards)].name])

\* lines 132-147, once the labels are attached
create_card_labelled(r, due_date) ==
    IF r.raised THEN r ELSE create_card_finish(create_card_due(r.st, due_date))

\* the card add_card creates
NewCard(st, title, lst) ==
    [id |-> Len(st.cards) + 1, name |-> title, list |-> lst.id, due |-> NoDue,
     closed |-> FALSE]

\* lines 120-147, once add_card() has been issued
create_card_added(st, lst, board_name, title, labels, due_date) ==
    IF Raises(st) THEN Exc(st)
    ELSE create_card_labelled(
             create_card_labels([st EXCEPT !.cards = Append(@, NewCard(st, title, lst))],
                                board_name, labels),
             due_date)

\* lines 115-120 without the test of line 116: add_card is called on whatever
\* get_list returned
create_card_list_unchecked(rl, board_name, title, labels, due_date) ==
    IF rl.raised THEN rl
    ELSE IF rl.value = None THEN Exc(Issue(rl.st, "add_card", 0))
    ELSE create_card_added(Issue(rl.st, "add_card", rl.value.id), rl.value,
                           board_name, title, labels, due_date)

\* lines 115-120, once get_list has returned or raised
create_card_list(rl, board_name, title, labels, due_date) ==
    IF rl.raised THEN rl
    ELSE IF rl.value = None THEN Ret(rl.st, Failure("List not found on board"))
    ELSE create_card_added(Issue(rl.st, "add_card", rl.value.id), rl.value,
                           board_name, title, labels, due_date)

create_card(st, board_name, list_name, title, labels, due_date) ==
    Try(create_card_list(get_list(st, board_name, list_name), board_name, title,
                         labels, due_date))

\* ---- move_card(card_id, target_list_name)

\* self.client.get_card(card_id): the card, None when the backend has none
get_card(st, card_id) ==
    IF card_id \in 1..Len(st.cards) THEN st.cards[card_id] ELSE None

\* card.board_id
BoardIdOf(st, card_id) == st.lists[st.cards[card_id].list].board

\* line 183, once change_list() has been issued
move_card_moved(st, card_id, list_id) ==
    IF Raises(st) THEN Exc(st)
    ELSE Ret([st EXCEPT !.cards[card_id].list = list_id],
             [success |-> TRUE, message |-> "Card moved"])

\* lines 173-183: the loop over board.list_lists(), with its break
move_card_target(st, card_id, ls, target_list_name) ==
    IF FirstMatch(ls, target_list_name) = 0
    THEN Ret(st, Failure("List not found"))
    ELSE move_card_moved(
             Issue(st, "change_list", ls[FirstMatch(ls, target_list_name)].id),
             card_id, ls[FirstMatch(ls, target_list_name)].id)

\* line 174 looking for the target among the lists of every board
move_card_lists_any_board(st, card_id, target_list_name) ==
    IF Raises(st) THEN Exc(st)
    ELSE move_card_target(SawLists(st, Range(st.lists)), card_id, st.lists,
                          target_list_name)

\* line 174, once list_lists() has been issued
move_card_lists(st, card_id, target_list_name) ==
    IF Raises(st) THEN Exc(st)
    ELSE move_card_target(SawLists(st, Range(ListsOf(st, BoardIdOf(st, card_id)))),
                          card_id, ListsOf(st, BoardIdOf(st, card_id)),
                          target_list_name)

\* line 170, once client.get_board() has been issued
move_card_board(st, card_id, target_list_name) ==
    IF Raises(st) THEN Exc(st)
    ELSE move_card_lists(
             Issue(SawBoards(st, {st.boards[BoardIdOf(st, card_id)]}),
                   "list_lists", BoardIdOf(st, card_id)),
             card_id, target_list_name)

\* lines 165-170 without the test of line 166: card.board_id raises
\* AttributeError on a card that is None
move_card_got_unchecked(st, card_id, target_list_name) ==
    IF Raises(st) THEN Exc(st)
    ELSE IF get_card(st, card_id) = None THEN Exc(st)
    ELSE move_card_board(Issue(st, "get_board", BoardIdOf(st, card_id)),
                         card_id, target_list_name)

\* lines 165-170, once client.get_card() has been issued
move_card_got(st, card_id, target_list_name) ==
    IF Raises(st) THEN Exc(st)
    ELSE IF get_card(st, card_id) = None THEN Ret(st, Failure("Card not found"))
    ELSE move_card_board(Issue(st, "get_board", BoardIdOf(st, card_id)),
                         card_id, target_list_name)

move_card(st, card_id, target_list_name) ==
    Try(move_card_got(Issue(st, "get_card", card_id), card_id, target_list_name))

\* ---- create_board(board_name, description)

NewBoard(st, board_name) == [id |-> Len(st.boards) + 1, name |-> board_name]

\* lines 205-216 without the cache write of line 208
create_board_added_uncached(st, board_name) ==
    IF Raises(st) THEN Exc(st)
    ELSE Ret([st EXCEPT !.boards = Append(@, NewBoard(st, board_name)),
                        !.returned.boards = @ \cup {NewBoard(st, board_name)}],
             [success |-> TRUE, board_id |-> Len(st.boards) + 1,
              board_name |-> board_name])

\* lines 205-216, once add_board() has been issued
create_board_added(st, board_name) ==
    IF Raises(st) THEN Exc(st)
    ELSE Ret([st EXCEPT !.boards = Append(@, NewBoard(st, board_name)),
                        !.returned.boards = @ \cup {NewBoard(st, board_name)},
                        !.cache_boards = Put(@, board_name, NewBoard(st, board_name))],
             [success |-> TRUE, board_id |-> Len(st.boards) + 1,
              board_name |-> board_name])

create_board(st, board_name) ==
    Try(create_board_added(Issue(st, "add_board", 0), board_name))

\* ---- create_list(board_name, list_name)

NewList(st, list_name, board) ==
    [id |-> Len(st.lists) + 1, name |-> list_name, board |-> board.id]

\* lines 239-246, once add_list() has been issued
create_list_added(st, board, board_name, list_name) ==
    IF Raises(st) THEN Exc(st)
    ELSE Ret([st EXCEPT !.lists = Append(@, NewList(st, list_name, board)),
                        !.returned.lists = @ \cup {NewList(st, list_name, board)},
                        !.cache_lists = Put(@, CacheKey(board_name, list_name),
                                            NewList(st, list_name, board))],
             [success |-> TRUE, list_name |-> list_name])

\* lines 234-239, once get_board has returned or raised
create_list_board(rb, board_name, list_name) ==
    IF rb.raised THEN rb
    ELSE IF rb.value = None THEN Ret(rb.st, Failure("Board not found"))
    ELSE create_list_added(Issue(rb.st, "add_list", rb.value.id), rb.value,
                           board_name, list_name)

create_list(st, board_name, list_name) ==
    Try(create_list_board(get_board(st, board_name), board_name, list_name))

\* ---- add_comment(card_id, comment)

\* line 268, once card.comment() has been issued
add_comment_posted(st) ==
    IF Raises(st) THEN Exc(st)
    ELSE Ret(st, [success |-> TRUE, message |-> "Comment added"])

\* lines 264-268, once client.get_card() has been issued
add_comment_got(st, card_id) ==
    IF Raises(st) THEN Exc(st)
    ELSE IF get_card(st, card_id) = None THEN Ret(st, Failure("Card not found"))
    ELSE add_comment_posted(Issue(st, "comment", card_id))

add_comment(st, card_id) == Try(add_comment_got(Issue(st, "get_card", card_id), card_id))

\* ---- archive_card(card_id)

\* line 292, once card.set_closed() has been issued
archive_card_closed(st, card_id) ==
    IF Raises(st) THEN Exc(st)
    ELSE Ret([st EXCEPT !.cards[card_id].closed = TRUE],
             [success |-> TRUE, message |-> "Card archived"])

\* lines 288-292, once client.get_card() has been issued
archive_card_got(st, card_id) ==
    IF Raises(st) THEN Exc(st)
    ELSE IF get_card(st, card_id) = None THEN Ret(st, Failure("Card not found"))
    ELSE archive_card_closed(Issue(st, "set_closed", card_id), card_id)

archive_card(st, card_id) ==
    Try(archive_card_got(Issue(st, "get_card", card_id), card_id))

\* ---- map_board_to_channel(board_name, channel_id)

\* lines 313-320, once get_board has returned or raised
map_board_to_channel_board(rb, channel_id) ==
    IF rb.raised THEN rb
    ELSE IF rb.value = None THEN Ret(rb.st, Failure("Board not found"))
    ELSE Ret([rb.st EXCEPT !.channel_mapping = Put(@, rb.value.id, channel_id)],
             [success |-> TRUE, message |-> "Board now linked to channel"])

map_board_to_channel(st, board_name, channel_id) ==
    Try(map_board_to_channel_board(get_board(st, board_name), channel_id))

\* ---- get_upcoming_due_cards(days_ahead)

\* lines 352-371: one card of the scan, as the list of entries it adds
DueEntryAfterNow(st, board, lst, card, today, threshold) ==
    IF card.due # NoDue /\ card.due # BadDue /\ today < card.due
       /\ card.due <= threshold
    THEN <<[card_id |-> card.id, due_date |-> card.due, board_name |-> board.name,
            list_name |-> lst.name,
            channel_id |-> IF board.id \in DOMAIN st.channel_mapping
                           THEN st.channel_mapping[board.id] ELSE None]>>
    ELSE <<>>

DueEntry(st, board, lst, card, today, threshold) ==
    IF card.due # NoDue /\ card.due # BadDue /\ today <= card.due
       /\ card.due <= threshold
    THEN <<[card_id |-> card.id, due_date |-> card.due, board_name |-> board.name,
            list_name |-> lst.name,
            channel_id |-> IF board.id \in DOMAIN st.channel_mapping
                           THEN st.channel_mapping[board.id] ELSE None]>>
    ELSE <<>>

\* lines 352-371: the loop over the open cards of one list
RECURSIVE DueCards(_, _, _, _, _, _)
DueCards(st, board, lst, cs, today, threshold) ==
    IF cs = <<>> THEN <<>>
    ELSE DueEntry(st, board, lst, Head(cs), today, threshold)
         \o DueCards(st, board, lst, Tail(cs), today, threshold)

\* lines 351-371: the loop over the lists of one board
RECURSIVE scan_lists(_, _, _, _, _, _)
RECURSIVE scan_lists_fetched(_, _, _, _, _, _)
scan_lists(st, board, ls, today, threshold, upcoming) ==
    IF ls = <<>> THEN Ret(st, upcoming)
    ELSE scan_lists_fetched(Issue(st, "list_cards", Head(ls).id), board, ls, today,
                            threshold, upcoming)

scan_lists_fetched(st, board, ls, today, threshold, upcoming) ==
    IF Raises(st) THEN Exc(st)
    ELSE scan_lists(st, board, Tail(ls), today, threshold,
                    upcoming \o DueCards(st, board, Head(ls),
                                         CardsOf(st, Head(ls).id), today, threshold))

\* lines 344-371: the loop over the boards
RECURSIVE scan_boards(_, _, _, _, _)
RECURSIVE scan_boards_fetched(_, _, _, _, _)
RECURSIVE scan_boards_scanned(_, _, _, _)
scan_boards(st, bs, today, threshold, upcoming) ==
    IF bs = <<>> THEN Ret(st, upcoming)
    ELSE scan_boards_fetched(Issue(st, "list_lists", Head(bs).id), bs, today,
                             threshold, upcoming)

scan_boards_fetched(st, bs, today, threshold, upcoming) ==
    IF Raises(st) THEN Exc(st)
    ELSE scan_boards_scanned(
             scan_lists(SawLists(st, Range(ListsOf(st, Head(bs).id))), Head(bs),
                        ListsOf(st, Head(bs).id), today, threshold, upcoming),
             bs, today, threshold)

scan_boards_scanned(r, bs, today, threshold) ==
    IF r.raised THEN r ELSE scan_boards(r.st, Tail(bs), today, threshold, r.value)

\* line 342, once list_boards() has been issued
get_upcoming_due_cards_fetched(st, today, days_ahead) ==
    IF Raises(st) THEN Exc(st)
    ELSE scan_boards(SawBoards(st, Range(st.boards)), st.boards, today,
                     today + days_ahead, <<>>)

\* get_upcoming_due_cards(days_ahead), called when datetime.now() is today
get_upcoming_due_cards(st, today, days_ahead) ==
    TryEmptyList(get_upcoming_due_cards_fetched(Issue(st, "list_boards", 0), today,
                                                days_ahead))

\* ---- get_boards()

\* lines 388-392, once list_boards() has been issued
get_boards_fetched(st) ==
    IF Raises(st) THEN Exc(st)
    ELSE Ret(SawBoards(st, Range(st.boards)), [success |-> TRUE, boards |-> st.boards])

get_boards(st) == Try(get_boards_fetched(Issue(st, "list_boards", 0)))

\* ---- get_lists(board_name)

\* lines 415-421 with the lists of every board instead of board.list_lists()
get_lists_fetched_every_board(st, board) ==
    IF Raises(st) THEN Exc(st)
    ELSE Ret(SawLists(st, Range(st.lists)),
             [success |-> TRUE, board_name |-> board.name, lists |-> st.lists])

\* lines 415-421, once list_lists() has been issued
get_lists_fetched(st, board) ==
    IF Raises(st) THEN Exc(st)
    ELSE Ret(SawLists(st, Range(ListsOf(st, board.id))),
             [success |-> TRUE, board_name |-> board.name,
              lists |-> ListsOf(st, board.id)])

\* lines 408-415, once get_board has returned or raised
get_lists_board(rb) ==
    IF rb.raised THEN rb
    ELSE IF rb.value = None THEN Ret(rb.st, Failure("Board not found"))
    ELSE get_lists_fetched(Issue(rb.st, "list_lists", rb.value.id), rb.value)

get_lists(st, board_name) == Try(get_lists_board(get_board(st, board_name)))

(***************************************************************************)
(* The command texts the parser is run on: a command word, a separator and *)
(* a remainder built from at most MaxChunks pieces.                        *)
(***************************************************************************)
sA == <<"a">>

Words == {sCreate, <<"C", "r", "e", "a", "t", "e">>, sMove, sComment, sLists,
          sBoards, <<>>}

Gaps == {<<>>, <<SP>>, <<TAB>>}

Chunks(word) ==
    IF Lower(word) = sMove THEN {<<SP>>, <<TAB>>, sA, sTo}
    ELSE {<<SP>>, <<TAB>>, sA, sIn}

RECURSIVE Remainders(_, _)
Remainders(word, n) ==
    IF n = 0 THEN {<<>>}
    ELSE {<<>>} \cup {r \o c : r \in Remainders(word, n - 1), c \in Chunks(word)}

\* the texts that start with one command word
CommandTexts(word) == {word \o g \o r : g \in Gaps, r \in Remainders(word, MaxChunks)}

(***************************************************************************)
(* The names and arguments the operations are called with.                 *)
(***************************************************************************)
bMain  == <<"m">>
bMAIN  == <<"M">>
bOther == <<"x">>
lTodo  == <<"t">>
lTODO  == <<"T">>
lOther == <<"y">>

BackendBoardNames == {bMain, bMAIN}
BoardNames == {bMain, bMAIN, bOther}
BackendListNames == {lTodo, lTODO}
ListNames == {lTodo, lTODO, lOther}
Titles == {sA}
\* the optional arguments of create_card: none, labels with a due date, a due
\* date that does not parse, and a due date written without leading zeros
CardOptions ==
    { [labels |-> <<>>, due_date |-> <<>>],
      [labels |-> <<(<<"q">>), (<<"b">>)>>, due_date |-> sGoodDate],
      [labels |-> <<>>, due_date |-> sBadDate],
      [labels |-> <<>>, due_date |-> sUnpaddedDate] }
\* the optional arguments create_card is called with for one board and list: all
\* of them where the names resolve in every backend that has boards, none of
\* them elsewhere
CardOptionsFor(board_name, list_name) ==
    IF board_name = bMain /\ list_name = lTodo THEN CardOptions
    ELSE {[labels |-> <<>>, due_date |-> <<>>]}
Channels == {"C1"}
\* the id of a card two backends start with, and one only one backend starts with
CardIds == {1, 2}
Days == {2, 3}
DaysAhead == {1, 2}

Empty == [x \in {} |-> None]

Idle == [n |-> 0, op |-> "init", args |-> <<>>, raised |-> FALSE, value |-> None,
         calls |-> <<>>, failed |-> FALSE, repeat |-> FALSE]

(***************************************************************************)
(* The parser as a state machine.                                          *)
(***************************************************************************)
InitParse ==
    /\ \E word \in Words : command_text \in CommandTexts(word)
    /\ parsed = Pending
    /\ boards = <<>> /\ lists = <<>> /\ cards = <<>>
    /\ cache_boards = Empty /\ cache_lists = Empty /\ channel_mapping = Empty
    /\ returned = [boards |-> {}, lists |-> {}]
    /\ last = Idle
    /\ message = NoMessage
    /\ handled = Unhandled
    /\ call = NoCall
    /\ outcome = NoOutcome
    /\ race = NoRace

ParseCommand ==
    /\ parsed = Pending
    /\ parsed' = parse_command(command_text)
    /\ UNCHANGED <<command_text, backend_vars, workflow_vars, chat_vars, method_vars, race>>

NextParse == ParseCommand

SpecParse == InitParse /\ [][NextParse]_vars

(***************************************************************************)
(* The workflow as a state machine: a backend that already holds boards,   *)
(* lists and cards, a TrelloWorkflow with empty caches, and one action per *)
(* public operation.  Each action runs the whole method; fail picks the    *)
(* backend call of the method that raises (0: none does).                  *)
(***************************************************************************)
\* The backends a workflow is started on: an empty one, one board with a list
\* and a card, and two boards whose names differ in case only, the first with
\* two lists whose names differ in case only.
Backends ==
    { [boards |-> <<>>, lists |-> <<>>, cards |-> <<>>],
      [boards |-> <<[id |-> 1, name |-> bMAIN]>>,
       lists |-> <<[id |-> 1, name |-> lTODO, board |-> 1]>>,
       cards |-> <<[id |-> 1, name |-> sA, list |-> 1, due |-> 3, closed |-> FALSE]>>],
      [boards |-> <<[id |-> 1, name |-> bMAIN], [id |-> 2, name |-> bMain]>>,
       lists |-> <<[id |-> 1, name |-> lTodo, board |-> 1],
                   [id |-> 2, name |-> lTODO, board |-> 1],
                   [id |-> 3, name |-> lTodo, board |-> 2]>>,
       cards |-> <<[id |-> 1, name |-> sA, list |-> 1, due |-> 9, closed |-> FALSE],
                   [id |-> 2, name |-> sA, list |-> 3, due |-> BadDue,
                    closed |-> FALSE],
                   [id |-> 3, name |-> sA, list |-> 2, due |-> 1, closed |-> FALSE]>>] }

Init ==
    /\ command_text = <<>>
    /\ parsed = Pending
    /\ \E backend \in Backends :
          /\ boards = backend.boards
          /\ lists = backend.lists
          /\ cards = backend.cards
    /\ cache_boards = Empty
    /\ cache_lists = Empty
    /\ channel_mapping = Empty
    /\ returned = [boards |-> {}, lists |-> {}]
    /\ last = Idle
    /\ message = NoMessage
    /\ handled = Unhandled
    /\ call = NoCall
    /\ outcome = NoOutcome
    /\ race = NoRace

\* the record a method starts on
St(fail) ==
    [boards |-> boards, lists |-> lists, cards |-> cards,
     cache_boards |-> cache_boards, cache_lists |-> cache_lists,
     channel_mapping |-> channel_mapping, returned |-> returned,
     calls |-> <<>>, fail |-> fail]

\* another operation may be called
MayCall == last.n < MaxOps

\* the backend calls of a method that can raise: any one it issues, or none
FailPoints(r) == 0..Len(r.st.calls)

\* the method has run: its effects and its outcome become the state
Done(run, op, args) ==
    \E r \in {run} :
          /\ boards' = r.st.boards
          /\ lists' = r.st.lists
          /\ cards' = r.st.cards
          /\ cache_boards' = r.st.cache_boards
          /\ cache_lists' = r.st.cache_lists
          /\ channel_mapping' = r.st.channel_mapping
          /\ returned' = r.st.returned
          /\ last' = [n |-> last.n + 1, op |-> op, args |-> args, raised |-> r.raised,
                      value |-> r.value, calls |-> r.st.calls,
                      failed |-> r.st.fail \in 1..Len(r.st.calls),
                      repeat |-> last.op = op /\ last.args = args]
          /\ UNCHANGED <<parse_vars, chat_vars, method_vars, race>>

GetBoard ==
    /\ MayCall
    /\ \E board_name \in BoardNames :
           \E fail \in FailPoints(get_board(St(0), board_name)) :
               Done(get_board(St(fail), board_name),
                    "get_board", <<board_name>>)

GetList ==
    /\ MayCall
    /\ \E board_name \in BoardNames, list_name \in ListNames :
           \E fail \in FailPoints(get_list(St(0), board_name, list_name)) :
               Done(get_list(St(fail), board_name, list_name),
                    "get_list", <<board_name, list_name>>)

CreateCard ==
    /\ MayCall
    /\ \E board_name \in BoardNames, list_name \in ListNames, title \in Titles :
         \E opt \in CardOptionsFor(board_name, list_name) :
           \E fail \in FailPoints(create_card(St(0), board_name, list_name, title,
                                              opt.labels, opt.due_date)) :
               Done(create_card(St(fail), board_name, list_name, title, opt.labels,
                                opt.due_date),
                    "create_card",
                    <<board_name, list_name, title, opt.labels, opt.due_date>>)

MoveCard ==
    /\ MayCall
    /\ \E card_id \in CardIds, target_list_name \in ListNames :
           \E fail \in FailPoints(move_card(St(0), card_id, target_list_name)) :
               Done(move_card(St(fail), card_id, target_list_name),
                    "move_card", <<card_id, target_list_name>>)

CreateBoard ==
    /\ MayCall
    /\ \E board_name \in BackendBoardNames :
           \E fail \in FailPoints(create_board(St(0), board_name)) :
               Done(create_board(St(fail), board_name),
                    "create_board", <<board_name>>)

CreateList ==
    /\ MayCall
    /\ \E board_name \in BoardNames, list_name \in BackendListNames :
           \E fail \in FailPoints(create_list(St(0), board_name, list_name)) :
               Done(create_list(St(fail), board_name, list_name),
                    "create_list", <<board_name, list_name>>)

AddComment ==
    /\ MayCall
    /\ \E card_id \in CardIds :
           \E fail \in FailPoints(add_comment(St(0), card_id)) :
               Done(add_comment(St(fail), card_id),
                    "add_comment", <<card_id>>)

ArchiveCard ==
    /\ MayCall
    /\ \E card_id \in CardIds :
           \E fail \in FailPoints(archive_card(St(0), card_id)) :
               Done(archive_card(St(fail), card_id),
                    "archive_card", <<card_id>>)

MapBoardToChannel ==
    /\ MayCall
    /\ \E board_name \in BoardNames, channel_id \in Channels :
           \E fail \in FailPoints(map_board_to_channel(St(0), board_name, channel_id)) :
               Done(map_board_to_channel(St(fail), board_name, channel_id),
                    "map_board_to_channel", <<board_name, channel_id>>)

GetUpcomingDueCards ==
    /\ MayCall
    /\ \E today \in Days, days_ahead \in DaysAhead :
           \E fail \in FailPoints(get_upcoming_due_cards(St(0), today, days_ahead)) :
               Done(get_upcoming_due_cards(St(fail), today, days_ahead),
                    "get_upcoming_due_cards", <<today, days_ahead>>)

GetBoards ==
    /\ MayCall
    /\ \E fail \in FailPoints(get_boards(St(0))) :
           Done(get_boards(St(fail)),
                "get_boards", <<>>)

GetLists ==
    /\ MayCall
    /\ \E board_name \in BoardNames :
           \E fail \in FailPoints(get_lists(St(0), board_name)) :
               Done(get_lists(St(fail), board_name),
                    "get_lists", <<board_name>>)

Next ==
    \/ GetBoard
    \/ GetList
    \/ CreateCard
    \/ MoveCard
    \/ CreateBoard
    \/ CreateList
    \/ AddComment
    \/ ArchiveCard
    \/ MapBoardToChannel
    \/ GetUpcomingDueCards
    \/ GetBoards
    \/ GetLists

Spec == Init /\ [][Next]_vars

(***************************************************************************)
(* Vocabulary of the parser claims.                                        *)
(***************************************************************************)
HasPrefix(t, p) == Len(t) >= Len(p) /\ SubSeq(t, 1, Len(p)) = p

\* s has a character that is not whitespace
NonBlank(s) == \E i \in 1..Len(s) : s[i] \notin Whitespace

HasWs(s) == \E i \in 1..Len(s) : s[i] \in Whitespace

FirstWs(s) == CHOOSE i \in 1..Len(s) :
                 s[i] \in Whitespace /\ \A j \in 1..(i - 1) : s[j] \notin Whitespace

\* the text before the first whitespace run of s (all of s when it has none)
BeforeWs(s) == IF HasWs(s) THEN Slice(s, 1, FirstWs(s) - 1) ELSE s

\* the text after the first whitespace run of s
AfterWsRun(s) ==
    IF HasWs(s)
    THEN LET rest == {i \in FirstWs(s)..Len(s) : s[i] \notin Whitespace}
         IN  IF rest = {} THEN <<>>
             ELSE Slice(s, CHOOSE i \in rest : \A j \in rest : i <= j, Len(s))
    ELSE <<>>

sCreateSp == sCreate \o sSpace
sMoveSp   == sMove \o sSpace

ArgKeys == {"card_title", "list_name", "board_name", "card_id", "comment_text"}

Has(args, k) == k \in DOMAIN args

\* the separator starting at position i is the first " in " / " to " after the
\* command word: the text before it, followed by the separator's first three
\* characters, holds no earlier occurrence
FirstSeparator(X, sep) == ~Contains(X \o Slice(sep, 1, Len(sep) - 1), sep)

\* C4 as stated: every "create <X> in <Y>" parses to (X stripped, Y stripped)
C4_AnyXAnyY ==
    parsed.done =>
        \A i \in (Len(sCreateSp) + 1)..Len(command_text) :
            (HasPrefix(command_text, sCreateSp) /\ OccursAt(command_text, sIn, i)) =>
                LET X == Slice(command_text, Len(sCreateSp) + 1, i - 1)
                    Y == Slice(command_text, i + Len(sIn), Len(command_text))
                IN  /\ ~parsed.raised
                    /\ parsed.command = sCreate
                    /\ Has(parsed.args, "card_title")
                    /\ Has(parsed.args, "list_name")
                    /\ parsed.args["card_title"] = Strip(X)
                    /\ parsed.args["list_name"] = Strip(Y)

\* C4 amended: "create <X> in <Y>" parses to command "create", card_title X
\* stripped and list_name Y stripped whenever X and Y are not blank and the
\* separator is the first " in " after the command word
C4_CreateInSplit ==
    parsed.done =>
        \A i \in (Len(sCreateSp) + 1)..Len(command_text) :
            LET X == Slice(command_text, Len(sCreateSp) + 1, i - 1)
                Y == Slice(command_text, i + Len(sIn), Len(command_text))
            IN  ( /\ HasPrefix(command_text, sCreateSp)
                  /\ OccursAt(command_text, sIn, i)
                  /\ NonBlank(X) /\ NonBlank(Y)
                  /\ FirstSeparator(X, sIn) ) =>
                    /\ ~parsed.raised
                    /\ parsed.command = sCreate
                    /\ Has(parsed.args, "card_title")
                    /\ Has(parsed.args, "list_name")
                    /\ parsed.args["card_title"] = Strip(X)
                    /\ parsed.args["list_name"] = Strip(Y)

\* C4 witness: a parsed "create <X> in <Y>" whose X and Y both need stripping
C4_Witness ==
    /\ parsed.done
    /\ \E i \in (Len(sCreateSp) + 1)..Len(command_text) :
          LET X == Slice(command_text, Len(sCreateSp) + 1, i - 1)
              Y == Slice(command_text, i + Len(sIn), Len(command_text))
          IN  /\ HasPrefix(command_text, sCreateSp)
              /\ OccursAt(command_text, sIn, i)
              /\ NonBlank(X) /\ NonBlank(Y)
              /\ FirstSeparator(X, sIn)
              /\ Strip(X) # X /\ Strip(Y) # Y

MoveWithoutTo ==
    ( /\ parsed.done
      /\ HasPrefix(command_text, sMove)
      /\ ~Contains(command_text, sTo) ) =>
        /\ ~parsed.raised
        /\ ~Has(parsed.args, "card_id")
        /\ ~Has(parsed.args, "list_name")

\* C6 as stated: every "move <id> to <name>" parses to (id stripped, name
\* stripped), and "move ..." without " to " sets neither key
C6_AnyIdAnyName ==
    /\ parsed.done =>
          \A i \in (Len(sMoveSp) + 1)..Len(command_text) :
              (HasPrefix(command_text, sMoveSp) /\ OccursAt(command_text, sTo, i)) =>
                  LET id == Slice(command_text, Len(sMoveSp) + 1, i - 1)
                      name == Slice(command_text, i + Len(sTo), Len(command_text))
                  IN  /\ ~parsed.raised
                      /\ Has(parsed.args, "card_id")
                      /\ Has(parsed.args, "list_name")
                      /\ parsed.args["card_id"] = Strip(id)
                      /\ parsed.args["list_name"] = Strip(name)
    /\ MoveWithoutTo

\* C6 amended: "move <id> to <name>" parses to card_id id stripped and
\* list_name name stripped whenever id and name are not blank and the separator
\* is the first " to " after the command word; "move ..." without " to " sets
\* neither key
C6_MoveSplit ==
    /\ parsed.done =>
          \A i \in (Len(sMoveSp) + 1)..Len(command_text) :
              LET id == Slice(command_text, Len(sMoveSp) + 1, i - 1)
                  name == Slice(command_text, i + Len(sTo), Len(command_text))
              IN  ( /\ HasPrefix(command_text, sMoveSp)
                    /\ OccursAt(command_text, sTo, i)
                    /\ NonBlank(id) /\ NonBlank(name)
                    /\ FirstSeparator(id, sTo) ) =>
                      /\ ~parsed.raised
                      /\ parsed.command = sMove
                      /\ Has(parsed.args, "card_id")
                      /\ Has(parsed.args, "list_name")
                      /\ parsed.args["card_id"] = Strip(id)
                      /\ parsed.args["list_name"] = Strip(name)
    /\ MoveWithoutTo

\* C6 witness: a parsed "move <id> to <name>" whose id and name need stripping
C6_Witness ==
    /\ parsed.done
    /\ \E i \in (Len(sMoveSp) + 1)..Len(command_text) :
          LET id == Slice(command_text, Len(sMoveSp) + 1, i - 1)
              name == Slice(command_text, i + Len(sTo), Len(command_text))
          IN  /\ HasPrefix(command_text, sMoveSp)
              /\ OccursAt(command_text, sTo, i)
              /\ NonBlank(id) /\ NonBlank(name)
              /\ FirstSeparator(id, sTo)
              /\ Strip(id) # id /\ Strip(name) # name

\* C7: a "comment" command's remainder is split at its first whitespace run
\* into card_id and comment_text; with fewer than two tokens both keys are absent
C7_CommentSplit ==
    (parsed.done /\ ~parsed.raised /\ parsed.command = sComment) =>
        LET remainder == AfterWsRun(Strip(command_text))
        IN  IF HasWs(remainder)
            THEN parsed.args = IdAndComment(BeforeWs(remainder), AfterWsRun(remainder))
            ELSE ~Has(parsed.args, "card_id") /\ ~Has(parsed.args, "comment_text")

\* C8: the text is split at its first whitespace run, whatever the whitespace:
\* the command is the lower-cased text before the run and the sub-grammar is
\* applied to the text after it
C8_WhitespaceRunSplit ==
    parsed.done =>
        LET t == Strip(command_text)
        IN  /\ ~parsed.raised
            /\ parsed.command = Lower(BeforeWs(t))
            /\ parsed.args = IF HasWs(t)
                             THEN sub_grammar(Lower(BeforeWs(t)), AfterWsRun(t)).args
                             ELSE NoArgs

\* C9: parse_command returns a (command, args) pair for every input and never
\* raises; args only holds keys of the grammar
C9_Total ==
    parsed.done =>
        /\ ~parsed.raised
        /\ parsed.command \in Seq({parsed.command[i] : i \in 1..Len(parsed.command)})
        /\ DOMAIN parsed.args \subseteq ArgKeys

\* C9 witness: a "create" whose remainder holds " in " twice has been parsed
C9_Witness ==
    /\ parsed.done
    /\ ~parsed.raised
    /\ parsed.command = sCreate
    /\ Len(SplitAll(AfterWsRun(Strip(command_text)), sIn)) > 2

(***************************************************************************)
(* Vocabulary of the workflow claims.  last describes the operation that   *)
(* has just run: its name and arguments, the backend calls it issued, if   *)
(* one of them raised (failed), if an exception left the operation         *)
(* (raised), what it returned (value), and if the operation before it was  *)
(* the same one with the same arguments (repeat).                          *)
(***************************************************************************)
ListBoardsCalls(calls) ==
    Cardinality({i \in 1..Len(calls) : calls[i].op = "list_boards"})

\* the step is a get_board call that follows a get_board call
SuccessiveGetBoard ==
    /\ last.op = "get_board"
    /\ last'.op = "get_board"
    /\ last'.n = last.n + 1

\* the get_board call that has just run found its board
Resolved(l) == ~l.raised /\ l.value # None

\* the operations whose body is a try block returning a failure record
RecordOps ==
    {"create_card", "move_card", "create_board", "create_list", "add_comment",
     "archive_card", "map_board_to_channel", "get_boards", "get_lists"}

\* C1 as stated: whatever the board name, two successive get_board calls with
\* the same name issue one list_boards call in total, the second call none
C1_EveryName ==
    [][(SuccessiveGetBoard /\ last'.args = last.args)
          => /\ ListBoardsCalls(last.calls) + ListBoardsCalls(last'.calls) = 1
             /\ last'.calls = <<>>]_vars

\* C1: when a get_board call misses the cache and finds the board, the next
\* get_board call with the same name issues no backend call and returns the same
\* board, so the two calls issue one list_boards call in total
C1_ResolvedOnce ==
    [][(SuccessiveGetBoard /\ last'.args = last.args /\ Resolved(last)
            /\ last.calls # <<>>)
          => /\ ListBoardsCalls(last.calls) + ListBoardsCalls(last'.calls) = 1
             /\ last'.calls = <<>>
             /\ ~last'.raised
             /\ last'.value = last.value]_vars

\* C1 witness: a get_board call that repeats the one before it has returned a
\* board without a backend call
C1_Witness ==
    /\ last.op = "get_board"
    /\ last.repeat
    /\ Resolved(last)
    /\ last.calls = <<>>

\* C2: once get_board(n1) has found a board, get_board(n2) for a name n2 that
\* differs from n1 in letter case at most returns the same board and issues no
\* list_boards call
C2_CaseInsensitive ==
    [][(SuccessiveGetBoard /\ Resolved(last)
            /\ Lower(last'.args[1]) = Lower(last.args[1]))
          => /\ ListBoardsCalls(last'.calls) = 0
             /\ ~last'.raised
             /\ last'.value = last.value]_vars

\* C3: every entry of the board cache and of the list cache is an entity the
\* backend returned, and a get_board or get_list call that raised or found
\* nothing has left no entry under its key
C3_CacheFromBackend ==
    /\ \A k \in DOMAIN cache_boards : cache_boards[k] \in returned.boards
    /\ \A k \in DOMAIN cache_lists : cache_lists[k] \in returned.lists
    /\ (last.op = "get_board" /\ ~Resolved(last))
          => last.args[1] \notin DOMAIN cache_boards
    /\ (last.op = "get_list" /\ ~Resolved(last))
          => CacheKey(last.args[1], last.args[2]) \notin DOMAIN cache_lists

\* C3 witness: both caches hold entries and a backend call of the operation that
\* has just run raised
C3_Witness ==
    /\ DOMAIN cache_boards # {}
    /\ DOMAIN cache_lists # {}
    /\ last.failed

GenOutcomes == {"text", "raises", "blocked"}

\* the outcome of a method: its return value or a raised exception, and whether
\* generate_content was called
AiReturns(text, address, generated) ==
    [raised |-> FALSE, text |-> text, address |-> address, generated |-> generated]
AiRaises(generated) ==
    [raised |-> TRUE, text |-> "", address |-> "", generated |-> generated]

\* response = self.model.generate_content(prompt); return response.text
generate_content(gen, text, address) ==
    IF gen = "text" THEN AiReturns(text, address, TRUE) ELSE AiRaises(TRUE)

\* a try block whose except clause does not match
AiTryUncaught(r, fallback, address) == r

\* try: ... except Exception: return <fallback>
AiTry(r, fallback, address) ==
    IF r.raised THEN AiReturns(fallback, address, r.generated) ELSE r

NoContext == [present |-> FALSE, keys |-> {}]
Dict(keys) == [present |-> TRUE, keys |-> keys]

\* f"Master <@{context.get('user')}>" if context and 'user' in context else "sir"
UserAddress(context) ==
    IF context.present /\ context.keys # {} /\ "user" \in context.keys
    THEN "Master" ELSE "sir"

\* ask(query, context), lines 35-66
ask(query, context, gen) ==
    AiTry(generate_content(gen, "answer", UserAddress(context)),
          "ask_apology", UserAddress(context))

\* create_task_description(task_name), lines 78-96
create_task_description(task_name, gen) ==
    AiTry(generate_content(gen, "description", "sir"), "no_description", "sir")

\* summarize_conversation(context), lines 109-132: the prompt reads
\* context['channel_name'] and context['messages'] before the try block
ai_summarize_conversation(context, gen) ==
    IF ~context.present \/ ~({"channel_name", "messages"} \subseteq context.keys)
    THEN AiRaises(FALSE)
    ELSE AiTry(generate_content(gen, "summary",
                                IF "user" \in context.keys THEN "Master" ELSE "sir"),
               "summary_apology", IF "user" \in context.keys THEN "Master" ELSE "sir")

\* the prompt of get_contextual_response, lines 151-186: with no thread context
\* it reads workflow_stats['ratio_info'] when workflow_stats is not empty
contextual_prompt(gen, user_address, has_thread, workflow_stats) ==
    IF ~has_thread /\ workflow_stats.present /\ workflow_stats.keys # {}
       /\ "ratio_info" \notin workflow_stats.keys
    THEN AiRaises(FALSE)
    ELSE generate_content(gen, "contextual", user_address)

\* get_contextual_response(query, user_address, thread_context, workflow_stats),
\* lines 149-194
get_contextual_response(query, user_address, has_thread, workflow_stats, gen) ==
    AiTry(contextual_prompt(gen, user_address, has_thread, workflow_stats),
          "ask_apology", user_address)

\* get_time_response(location, time_str, user_address), lines 208-219
get_time_response(location, time_str, user_address, gen) ==
    AiTry(generate_content(gen, "time_remark", user_address), "time_plain",
          user_address)

(***************************************************************************)
(* The chat handlers of main.py.  A handler ends by returning or by an     *)
(* exception leaving it; said lists the replies it sent through say.       *)
(***************************************************************************)
sBangAi        == <<"!", "a", "i">>
sBangSummarize == <<"!", "s", "u", "m", "m", "a", "r", "i", "z", "e">>
sBangTrello    == <<"!", "t", "r", "e", "l", "l", "o">>
sOne           == <<"1">>

\* the text after a prefix
After(text, prefix) == Slice(text, Len(prefix) + 1, Len(text))

\* re: ^<prefix>\s+(.+) matches text
RegexMatches(text, prefix) ==
    /\ HasPrefix(text, prefix)
    /\ Len(After(text, prefix)) >= 2
    /\ After(text, prefix)[1] \in Whitespace

\* the external calls that raise during one handler invocation: one chat
\* transport lookup at most, and generate_content or not
Lookups == {"users_info", "conversations_info", "conversations_history"}
Faults == [transport : {"none"} \cup Lookups, gen : BOOLEAN]

\* the handler returns having said the replies / an exception leaves it
Said(st, replies) == [st |-> st, said |-> replies, raised |-> FALSE]
Crashed(st, replies) == [st |-> st, said |-> replies, raised |-> TRUE]

\* what generate_content does under the faults of one invocation
GenOf(faults) == IF faults.gen THEN "raises" ELSE "text"

\* lines 279-283 and 305-309: the context dicts the handlers build
AskContext == Dict({"user", "user_info", "channel"})
SummaryContext == Dict({"channel_name", "messages", "user"})

\* ---- handle_ai_request(message, say)

\* lines 276-287: users_info, ask, say
handle_ai_request_asked(st, msg, faults) ==
    IF faults.transport = "users_info" THEN Crashed(st, <<>>)
    ELSE Said(st, <<ask(After(msg.text, sBangAi), AskContext, GenOf(faults)).text>>)

handle_ai_request(st, msg, faults) ==
    IF ~RegexMatches(msg.text, sBangAi) THEN Said(st, <<"need_question">>)
    ELSE handle_ai_request_asked(st, msg, faults)

\* ---- summarize_conversation(message, say)

\* lines 292-321: the try block and its handler
summarize_conversation(st, msg, faults) ==
    IF faults.transport \in {"conversations_info", "conversations_history"}
    THEN Said(st, <<"summarize_error">>)
    ELSE IF msg.history = 0 THEN Said(st, <<"nothing_to_summarize">>)
    ELSE Said(st, <<ai_summarize_conversation(SummaryContext, GenOf(faults)).text>>)

\* ---- handle_trello_command(message, say)

sUxOpsChannel   == "UX"
sAfrotakuChannel == "AF"
bAfrotaku       == <<"f">>

\* lines 349-353: the board of the channel, "Main Board" by default
board_for_channel(channel_id) ==
    IF channel_id = sUxOpsChannel THEN bOther
    ELSE IF channel_id = sAfrotakuChannel THEN bAfrotaku
    ELSE bMain

\* a card id as the backend reads it: "1" names card 1, other texts no card
TextCardId(s) == IF s = sOne THEN 1 ELSE 0

\* except Exception as e: say(apology), lines 445-447
TryHandler(h) ==
    IF h.raised THEN Said(h.st, h.said \o <<"trello_error">>) ELSE h

\* lines 365-368, 414-417, 433-436: the reply to a result record
Reply(r, ok, bad) ==
    IF r.raised THEN Crashed(r.st, <<>>)
    ELSE IF r.value.success THEN Said(r.st, <<ok>>)
    ELSE Said(r.st, <<bad>>)

\* lines 339-346: card title and list name of a create command
create_title(card_info) ==
    IF Contains(card_info, sIn) THEN Split1(card_info, sIn)[1] ELSE card_info

create_list_name(card_info) ==
    IF Contains(card_info, sIn) THEN Strip(Split1(card_info, sIn)[2]) ELSE sToDo

\* lines 357-362: the arguments of the create_card call
create_request(card_info, channel_id) ==
    [op |-> "create_card", board_name |-> board_for_channel(channel_id),
     list_name |-> create_list_name(card_info), title |-> create_title(card_info)]

\* lines 337-368
trello_create(st, card_info, channel_id) ==
    Reply(create_card(st, create_request(card_info, channel_id).board_name,
                      create_request(card_info, channel_id).list_name,
                      create_request(card_info, channel_id).title, <<>>, <<>>),
          "created", "create_failed")

\* lines 372-377, once list_boards() has been issued
trello_boards_fetched(st) ==
    IF Raises(st) THEN Crashed(st, <<>>)
    ELSE IF st.boards # <<>> THEN Said(st, <<"boards">>)
    ELSE Said(st, <<"no_boards">>)

\* lines 386-392, once list_lists() has been issued
trello_lists_fetched(st, board) ==
    IF Raises(st) THEN Crashed(st, <<>>)
    ELSE IF ListsOf(st, board.id) # <<>> THEN Said(st, <<"lists">>)
    ELSE Said(st, <<"empty_board">>)

\* lines 384-394, once get_board has returned or raised
trello_lists_board(rb) ==
    IF rb.raised THEN Crashed(rb.st, <<>>)
    ELSE IF rb.value = None THEN Said(rb.st, <<"no_board">>)
    ELSE trello_lists_fetched(Issue(rb.st, "list_lists", rb.value.id), rb.value)

\* lines 398-417 without the length test of lines 399-401
trello_comment_unchecked(st, comment_parts) ==
    Reply(add_comment(st, TextCardId(comment_parts[1])), "commented", "comment_failed")

\* lines 398-417
trello_comment(st, comment_parts) ==
    IF Len(comment_parts) < 2 THEN Said(st, <<"comment_format">>)
    ELSE Reply(add_comment(st, TextCardId(comment_parts[1])),
               "commented", "comment_failed")

\* lines 421-436
trello_move(st, move_text) ==
    IF ~Contains(move_text, sTo) THEN Said(st, <<"move_format">>)
    ELSE Reply(move_card(st, TextCardId(Strip(Split1(move_text, sTo)[1])),
                         Strip(Split1(move_text, sTo)[2])),
               "moved", "move_failed")

\* line 337: the create branch is taken
IsCreate(parts) == Lower(parts[1]) = sCreate /\ Len(parts) > 1

\* lines 335-443: the if/elif chain on the command word
trello_dispatch(st, parts, channel_id) ==
    IF IsCreate(parts)
    THEN trello_create(st, Strip(parts[2]), channel_id)
    ELSE IF Lower(parts[1]) = sBoards
    THEN trello_boards_fetched(Issue(st, "list_boards", 0))
    ELSE IF Lower(parts[1]) = sLists /\ Len(parts) > 1
    THEN trello_lists_board(get_board(st, Strip(parts[2])))
    ELSE IF Lower(parts[1]) = sComment /\ Len(parts) > 1
    THEN trello_comment(st, Split1(Strip(parts[2]), sSpace))
    ELSE IF Lower(parts[1]) = sMove /\ Len(parts) > 1
    THEN trello_move(st, Strip(parts[2]))
    ELSE Said(st, <<"help">>)

\* lines 326-327: the text after the prefix, and its split at the first space
trello_text(msg) == Strip(After(msg.text, sBangTrello))
trello_parts(msg) == Split1(trello_text(msg), sSpace)

\* lines 326-447; get_user_address catches what users_info raises
handle_trello_command(st, msg, faults) ==
    TryHandler(trello_dispatch(st, trello_parts(msg), msg.channel))

\* the create_card call the handler makes for a message, None when it makes none
trello_request(msg) ==
    IF IsCreate(trello_parts(msg))
    THEN create_request(Strip(trello_parts(msg)[2]), msg.channel)
    ELSE None

(***************************************************************************)
(* The handlers as a state machine: one inbound message, one invocation.   *)
(***************************************************************************)
ChatWords == {sCreate, sMove, sComment, sLists, sBoards, <<"h">>}

ChatChunks(word) ==
    IF word = sCreate THEN {<<SP>>, <<TAB>>, sA, sIn, lTodo}
    ELSE IF word = sMove THEN {<<SP>>, sOne, sTo, lTodo}
    ELSE IF word = sComment THEN {<<SP>>, <<TAB>>, sOne, sA}
    ELSE IF word = sLists THEN {<<SP>>, bMain, bOther}
    ELSE {sA}

RECURSIVE ChatRemainders(_, _)
ChatRemainders(word, n) ==
    IF n = 0 THEN {<<>>}
    ELSE {<<>>} \cup {r \o c : r \in ChatRemainders(word, n - 1),
                              c \in ChatChunks(word)}

ChatChannels == {"C1", sUxOpsChannel}

\* the messages that start with "!trello " and one command word
TrelloMessages(word) ==
    {[text |-> sBangTrello \o <<SP>> \o word \o <<SP>> \o r, channel |-> c,
      history |-> 0] : r \in ChatRemainders(word, MaxChatChunks), c \in ChatChannels}

OtherMessages ==
    {[text |-> sBangAi \o <<SP>> \o sA, channel |-> "C1", history |-> 0]}
    \cup {[text |-> sBangSummarize, channel |-> "C1", history |-> h] : h \in {0, 1}}

InitChat ==
    /\ command_text = <<>>
    /\ parsed = Pending
    /\ \E backend \in Backends :
          /\ boards = backend.boards
          /\ lists = backend.lists
          /\ cards = backend.cards
    /\ cache_boards = Empty
    /\ cache_lists = Empty
    /\ channel_mapping = Empty
    /\ returned = [boards |-> {}, lists |-> {}]
    /\ last = Idle
    /\ \/ message \in OtherMessages
       \/ \E word \in ChatWords : message \in TrelloMessages(word)
    /\ handled = Unhandled
    /\ call = NoCall
    /\ outcome = NoOutcome
    /\ race = NoRace

\* the handler has run: its effects and its outcome become the state
Handled(run, handler, faults, request) ==
    \E h \in {run} :
          /\ boards' = h.st.boards
          /\ lists' = h.st.lists
          /\ cards' = h.st.cards
          /\ cache_boards' = h.st.cache_boards
          /\ cache_lists' = h.st.cache_lists
          /\ channel_mapping' = h.st.channel_mapping
          /\ returned' = h.st.returned
          /\ handled' = [done |-> TRUE, handler |-> handler, said |-> h.said,
                         raised |-> h.raised, calls |-> h.st.calls,
                         faults |-> faults, request |-> request,
                         failed |-> h.st.fail \in 1..Len(h.st.calls)]
          /\ UNCHANGED <<parse_vars, last, message, method_vars, race>>

HandleAiRequest ==
    /\ ~handled.done
    /\ RegexMatches(message.text, sBangAi)
    /\ \E faults \in Faults :
           Handled(handle_ai_request(St(0), message, faults), "handle_ai_request",
                   faults, None)

SummarizeConversation ==
    /\ ~handled.done
    /\ HasPrefix(message.text, sBangSummarize)
    /\ \E faults \in Faults :
           Handled(summarize_conversation(St(0), message, faults),
                   "summarize_conversation", faults, None)

HandleTrelloCommand ==
    /\ ~handled.done
    /\ RegexMatches(message.text, sBangTrello)
    /\ \E faults \in Faults :
           \E fail \in FailPoints(handle_trello_command(St(0), message, faults)) :
               Handled(handle_trello_command(St(fail), message, faults),
                       "handle_trello_command", faults, trello_request(message))

NextChat ==
    \/ HandleAiRequest
    \/ SummarizeConversation
    \/ HandleTrelloCommand

SpecChat == InitChat /\ [][NextChat]_vars

\* C11: whichever external call raises, a handler invocation ends having sent a
\* reply through say, and no exception leaves the handler
C11_AlwaysReplies ==
    handled.done => (~handled.raised /\ Len(handled.said) >= 1)

(***************************************************************************)
(* Vocabulary of the name-matching and card claims.                        *)
(***************************************************************************)
\* the first element of seq whose name equals name ignoring case, else None
FirstByName(seq, name) ==
    IF \E i \in 1..Len(seq) : Lower(seq[i].name) = Lower(name)
    THEN seq[CHOOSE i \in 1..Len(seq) :
                 /\ Lower(seq[i].name) = Lower(name)
                 /\ \A j \in 1..(i - 1) : Lower(seq[j].name) # Lower(name)]
    ELSE None

\* the lists of one board, in backend order
ListsOfBoard(board_id) == SelectSeq(lists, LAMBDA l : l.board = board_id)

\* the arguments of the calls of one kind an operation issued, in order
ArgsOf(calls, op) ==
    [i \in 1..Len(SelectSeq(calls, LAMBDA c : c.op = op)) |->
        SelectSeq(calls, LAMBDA c : c.op = op)[i].arg]

\* for each requested label that matches, the id of the first board label
\* that matches it
RECURSIVE FirstLabelIds(_)
FirstLabelIds(labels) ==
    IF labels = <<>> THEN <<>>
    ELSE (IF FirstByName(BoardLabels, Head(labels)) = None THEN <<>>
          ELSE <<FirstByName(BoardLabels, Head(labels)).id>>)
         \o FirstLabelIds(Tail(labels))

\* C12: wherever a name is resolved against the backend (get_board, get_list,
\* the target list of move_card, the labels of create_card) the entity used is
\* the first one, in backend order, whose name equals the requested name
\* ignoring case, and no other one
C12_FirstMatchOnly ==
    /\ (last.op = "get_board" /\ ~last.raised /\ last.calls # <<>>)
          => last.value = FirstByName(boards, last.args[1])
    /\ (last.op = "get_list" /\ ~last.raised /\ ArgsOf(last.calls, "list_lists") # <<>>)
          => last.value = FirstByName(ListsOfBoard(ArgsOf(last.calls, "list_lists")[1]),
                                      last.args[2])
    /\ (last.op = "move_card" /\ ArgsOf(last.calls, "change_list") # <<>>)
          => lists[ArgsOf(last.calls, "change_list")[1]]
                = FirstByName(ListsOfBoard(ArgsOf(last.calls, "list_lists")[1]),
                              last.args[2])
    /\ (last.op = "create_card" /\ ~last.failed /\ last.value.success)
          => ArgsOf(last.calls, "add_label") = FirstLabelIds(last.args[4])

\* no board whose name matches board_name has a list whose name matches
\* list_name
Unresolvable(board_name, list_name) ==
    ~\E i \in 1..Len(boards), j \in 1..Len(lists) :
          /\ Lower(boards[i].name) = Lower(board_name)
          /\ lists[j].board = boards[i].id
          /\ Lower(lists[j].name) = Lower(list_name)

NotFoundErrors ==
    {"List not found on board", "Card not found", "List not found", "Board not found"}

\* C14 as stated: move_card for a card id the backend does not have returns a
\* failure record whose error text contains "not found", raises nothing and
\* issues no change_list call
C14_AlwaysNotFound ==
    (last.op = "move_card" /\ last.args[1] \notin 1..Len(cards))
        => /\ ~last.raised
           /\ ~last.value.success
           /\ last.value.error \in NotFoundErrors
           /\ ArgsOf(last.calls, "change_list") = <<>>

\* C14: move_card for a card id the backend does not have returns a failure
\* record, raises nothing and issues no change_list call; when get_card has
\* answered, the error text contains "not found"
C14_MissingCard ==
    (last.op = "move_card" /\ last.args[1] \notin 1..Len(cards))
        => /\ ~last.raised
           /\ ~last.value.success
           /\ ArgsOf(last.calls, "change_list") = <<>>
           /\ ~last.failed => last.value.error \in NotFoundErrors

\* C14 witness: move_card has run for a card id the backend does not have and
\* get_card answered
C14_Witness ==
    /\ last.op = "move_card"
    /\ last.args[1] \notin 1..Len(cards)
    /\ ~last.failed
    /\ last.calls = <<[op |-> "get_card", arg |-> last.args[1]]>>

\* C15: every change_list call of move_card names a list of the board the card
\* was on and whose name equals target_list_name ignoring case; when that board
\* has no such list move_card returns a failure record and issues no
\* change_list call
C15_OwnBoardOnly ==
    [][(last'.op = "move_card" /\ last'.n = last.n + 1)
          => /\ \A k \in 1..Len(ArgsOf(last'.calls, "change_list")) :
                   /\ last'.args[1] \in 1..Len(cards)
                   /\ lists[ArgsOf(last'.calls, "change_list")[k]].board
                         = lists[cards[last'.args[1]].list].board
                   /\ Lower(lists[ArgsOf(last'.calls, "change_list")[k]].name)
                         = Lower(last'.args[2])
             /\ (/\ last'.args[1] \in 1..Len(cards)
                 /\ FirstByName(ListsOfBoard(lists[cards[last'.args[1]].list].board),
                                last'.args[2]) = None)
                   => /\ ~last'.value.success
                      /\ ArgsOf(last'.calls, "change_list") = <<>>]_vars

\* C15 witness: move_card has moved a card
C15_Witness ==
    /\ last.op = "move_card"
    /\ last.value.success
    /\ ArgsOf(last.calls, "change_list") = <<cards[last.args[1]].list>>

\* the ids of the board labels whose name equals a requested label ignoring case
LabelsRequested(labels) ==
    {BoardLabels[i].id : i \in {i \in 1..Len(BoardLabels) :
        \E k \in 1..Len(labels) : Lower(BoardLabels[i].name) = Lower(labels[k])}}

\* C16: a create_card that creates its card and meets no backend failure
\* attaches the board labels whose names match a requested label ignoring case
\* and no other label, and returns success with card id, url and name, also
\* when a requested label matches no board label
C16_LabelsAttached ==
    (last.op = "create_card" /\ ~last.failed /\ ArgsOf(last.calls, "add_card") # <<>>)
        => /\ ~last.raised
           /\ last.value.success
           /\ {"card_id", "card_url", "card_name"} \subseteq DOMAIN last.value
           /\ Range(ArgsOf(last.calls, "add_label")) = LabelsRequested(last.args[4])

\* C16 witness: create_card has attached a label for a labels argument that
\* also names a label the board does not have
C16_Witness ==
    /\ last.op = "create_card"
    /\ ~last.failed
    /\ last.value.success
    /\ ArgsOf(last.calls, "add_label") # <<>>
    /\ \E k \in 1..Len(last.args[4]) : LabelsRequested(<<last.args[4][k]>>) = {}

\* s is a date written as YYYY-MM-DD: four, two and two digits
IsIsoDate(s) ==
    /\ strptime_ok(s)
    /\ Len(SplitAll(s, sDash)[2]) = 2
    /\ Len(SplitAll(s, sDash)[3]) = 2

\* create_card has created its card and no backend call raised
CardCreated ==
    last.op = "create_card" /\ ~last.failed /\ ArgsOf(last.calls, "add_card") # <<>>

\* C17 as stated: with a due_date that is not a date written as YYYY-MM-DD
\* create_card issues no set_due call and returns success; with one that is, it
\* issues one set_due call
C17_IsoOrSkip ==
    CardCreated
        => /\ last.value.success
           /\ Len(ArgsOf(last.calls, "set_due")) = IF IsIsoDate(last.args[5]) THEN 1 ELSE 0

\* C17: with a due_date that strptime("%Y-%m-%d") rejects create_card issues no
\* set_due call and returns success; with one that it accepts, written with or
\* without leading zeros, it issues one set_due call, for the parsed date
C17_ParsedOrSkipped ==
    CardCreated
        => /\ last.value.success
           /\ ArgsOf(last.calls, "set_due")
                = IF strptime_ok(last.args[5]) THEN <<strptime_day(last.args[5])>>
                  ELSE <<>>

\* C17 witness: create_card has created a card for a due_date text that is not
\* empty and does not parse
C17_Witness ==
    /\ CardCreated
    /\ last.args[5] # <<>>
    /\ ~strptime_ok(last.args[5])
    /\ last.value.success

\* the step is the call op(args) that follows a successful creation by
\* created(args)
FollowsCreation(created, op) ==
    /\ last.op = created
    /\ ~last.raised
    /\ last.value.success
    /\ last'.n = last.n + 1
    /\ last'.op = op
    /\ last'.args = last.args

\* C18: get_board(n) right after a successful create_board(n) returns the
\* created board and issues no backend call, and get_list(b, l) right after a
\* successful create_list(b, l) returns the created list and issues no backend
\* call
C18_CreatedIsCached ==
    [][/\ FollowsCreation("create_board", "get_board")
            => /\ last'.calls = <<>>
               /\ ~last'.raised
               /\ last'.value = boards[Len(boards)]
               /\ last'.value.name = last.args[1]
       /\ FollowsCreation("create_list", "get_list")
            => /\ last'.calls = <<>>
               /\ ~last'.raised
               /\ last'.value = lists[Len(lists)]
               /\ last'.value.name = last.args[2]]_vars

\* the largest number of lists a backend starts with
MostLists == CHOOSE k \in {Len(b.lists) : b \in Backends} :
                 \A b \in Backends : Len(b.lists) <= k

\* C18 witness: the second call, a get_list without a backend call, has
\* returned a list that no backend starts with, the list the first call created
C18_Witness ==
    /\ last.n = 2
    /\ last.op = "get_list"
    /\ last.calls = <<>>
    /\ Len(lists) = MostLists + 1
    /\ last.value = lists[Len(lists)]

\* the same for boards: the second call, a get_board without a backend call, has
\* returned the only board of a backend that started empty
C18_BoardWitness ==
    /\ last.n = 2
    /\ last.op = "get_board"
    /\ last.calls = <<>>
    /\ Len(boards) = 1
    /\ Len(lists) = 0
    /\ last.value = boards[1]

\* C19: no step removes a key from the board cache or from the list cache
C19_NeverInvalidated ==
    [][/\ DOMAIN cache_boards \subseteq DOMAIN cache_boards'
       /\ DOMAIN cache_lists \subseteq DOMAIN cache_lists']_vars

\* C19 witness: an operation in which a backend call raised has ended, it
\* resolved no name at the backend, and both caches hold entries: the entries
\* were there before it
C19_Witness ==
    /\ last.failed
    /\ ArgsOf(last.calls, "list_boards") = <<>>
    /\ ArgsOf(last.calls, "list_lists") = <<>>
    /\ DOMAIN cache_boards # {}
    /\ DOMAIN cache_lists # {}

\* the cards the backend lists: those list_cards() yields for their list
ListedCards == {c \in Range(cards) : c \in Range(CardsOf(St(0), c.list))}

\* the due date of card c parses and lies in [today, today + days_ahead]
DueWithin(c, today, days_ahead) ==
    /\ c.due # NoDue
    /\ c.due # BadDue
    /\ today <= c.due
    /\ c.due <= today + days_ahead

\* get_upcoming_due_cards has ended and no backend call raised
Scanned == last.op = "get_upcoming_due_cards" /\ ~last.failed

\* C20: a scan in which no backend call raised returns, once each and with
\* their due date, exactly the listed cards whose due date parses and lies in
\* [now, now + days_ahead]
C20_ExactlyTheDueCards ==
    Scanned
        => /\ ~last.raised
           /\ {[card_id |-> e.card_id, due_date |-> e.due_date] : e \in Range(last.value)}
                = {[card_id |-> c.id, due_date |-> c.due] :
                       c \in {d \in ListedCards :
                                  DueWithin(d, last.args[1], last.args[2])}}
           /\ Len(last.value) = Cardinality({e.card_id : e \in Range(last.value)})

\* C20 witness: one scan has returned a card and left out a card due before now,
\* a card due after the interval and a card whose due date does not parse
C20_Witness ==
    /\ Scanned
    /\ last.value # <<>>
    /\ \E c \in ListedCards : c.due # NoDue /\ c.due # BadDue /\ c.due < last.args[1]
    /\ \E c \in ListedCards : c.due > last.args[1] + last.args[2]
    /\ \E c \in ListedCards : c.due = BadDue

\* a scan has returned a card due at now, and a scan a card due at the end of
\* the interval
C20_LowerEdge ==
    Scanned /\ \E e \in Range(last.value) : e.due_date = last.args[1]

C20_UpperEdge ==
    Scanned /\ \E e \in Range(last.value) : e.due_date = last.args[1] + last.args[2]

(***************************************************************************)
(* Claims about the list query, the chat handlers and the parser together. *)
(***************************************************************************)
\* the step is a get_lists call whose board name has no entry in the board cache
GetListsUncached ==
    /\ last'.n = last.n + 1
    /\ last'.op = "get_lists"
    /\ last'.args[1] \notin DOMAIN cache_boards

\* C21: get_lists on a board cache without an entry for the name issues one
\* list_boards call and raises nothing; when no board matches the name ignoring
\* case it issues no list_lists call and returns a failure record, whose error
\* is a "not found" text unless list_boards raised; when a board matches and no
\* backend call raises it issues one list_lists call, for the first such board,
\* and returns success with the lists of that board
C21_OneFetchThenLists ==
    [][GetListsUncached
         => /\ ListBoardsCalls(last'.calls) = 1
            /\ ~last'.raised
            /\ FirstByName(boards, last'.args[1]) = None
                 => /\ ~last'.value.success
                    /\ ArgsOf(last'.calls, "list_lists") = <<>>
                    /\ ~last'.failed => last'.value.error \in NotFoundErrors
            /\ (FirstByName(boards, last'.args[1]) # None /\ ~last'.failed)
                 => /\ last'.value.success
                    /\ last'.value.lists
                         = ListsOfBoard(FirstByName(boards, last'.args[1]).id)
                    /\ ArgsOf(last'.calls, "list_lists")
                         = <<FirstByName(boards, last'.args[1]).id>>]_vars

\* C21 witness: a get_lists call that fetched the boards once has returned the
\* lists of a board, and the backend holds a list of another board
C21_Witness ==
    /\ last.op = "get_lists"
    /\ ~last.failed
    /\ ListBoardsCalls(last.calls) = 1
    /\ last.value.success
    /\ last.value.lists # <<>>
    /\ \E i \in 1..Len(lists) : lists[i] \notin Range(last.value.lists)

\* a get_lists call that fetched the boards once has found no board
C21_NotFoundWitness ==
    /\ last.op = "get_lists"
    /\ ~last.failed
    /\ ListBoardsCalls(last.calls) = 1
    /\ ~last.value.success

\* the handler has taken a message "!trello create <X> in <Y>" and called
\* create_card for it
CreateInHandled ==
    /\ handled.done
    /\ handled.handler = "handle_trello_command"
    /\ handled.request # None
    /\ Contains(Strip(trello_parts(message)[2]), sIn)

\* what parse_command yields for the text of the message after the prefix
ParsedMessage == parse_command(After(message.text, sBangTrello))

\* C22: for a message "!trello create <X> in <Y>" the handler calls create_card
\* with the title and the list name parse_command yields for the same text
C22_HandlerAsParser ==
    CreateInHandled
        => /\ ~ParsedMessage.raised
           /\ Has(ParsedMessage.args, "card_title")
           /\ Has(ParsedMessage.args, "list_name")
           /\ handled.request.title = ParsedMessage.args["card_title"]
           /\ handled.request.list_name = ParsedMessage.args["list_name"]

\* the list name alone does agree
C22_SameListName ==
    CreateInHandled
        => /\ ~ParsedMessage.raised
           /\ Has(ParsedMessage.args, "list_name")
           /\ handled.request.list_name = ParsedMessage.args["list_name"]

\* the handler has taken a message "!trello comment <card_id>": one token, a
\* text without whitespace, after the command word
CommentOneTokenHandled ==
    /\ handled.done
    /\ handled.handler = "handle_trello_command"
    /\ Len(trello_parts(message)) > 1
    /\ Lower(trello_parts(message)[1]) = sComment
    /\ Strip(trello_parts(message)[2]) # <<>>
    /\ ~HasWs(Strip(trello_parts(message)[2]))

\* C23: for a comment command with one token after the command word the parser
\* returns an argument map without comment_text, and the handler says the format
\* message and issues no backend call
C23_FormatMessage ==
    CommentOneTokenHandled
        => /\ ~ParsedMessage.raised
           /\ ParsedMessage.command = sComment
           /\ ~Has(ParsedMessage.args, "comment_text")
           /\ ~handled.raised
           /\ handled.said = <<"comment_format">>
           /\ handled.calls = <<>>

\* C23 witness: the handler has answered "!trello comment 1" on a backend that
\* holds card 1
C23_Witness ==
    /\ CommentOneTokenHandled
    /\ Strip(trello_parts(message)[2]) = sOne
    /\ \E i \in 1..Len(cards) : cards[i].id = 1
    /\ handled.said = <<"comment_format">>

(***************************************************************************)
(* The methods of AIAssistant as a state machine: one call, one outcome.   *)
(***************************************************************************)
AiContexts ==
    {NoContext, Dict({}), Dict({"user"}), Dict({"channel"}), Dict({"user", "channel"})}

SummaryContexts ==
    {NoContext, Dict({}), Dict({"messages"}), Dict({"channel_name", "messages"}),
     Dict({"channel_name", "messages", "user"})}

WorkflowStats == {NoContext, Dict({}), Dict({"ratio_info"}), Dict({"total"})}

UserAddresses == {"sir", "Master"}

AiCalls ==
    {[method |-> "ask", query |-> sA, context |-> c, gen |-> g] :
         c \in AiContexts, g \in GenOutcomes}
    \cup {[method |-> "create_task_description", task_name |-> t, gen |-> g] :
              t \in {sA, <<>>}, g \in GenOutcomes}
    \cup {[method |-> "summarize_conversation", context |-> c, gen |-> g] :
              c \in SummaryContexts, g \in GenOutcomes}
    \cup {[method |-> "get_contextual_response", query |-> sA, user_address |-> u,
           has_thread |-> t, workflow_stats |-> w, gen |-> g] :
              u \in UserAddresses, t \in BOOLEAN, w \in WorkflowStats,
              g \in GenOutcomes}
    \cup {[method |-> "get_time_response", location |-> sA, time_str |-> sOne,
           user_address |-> u, gen |-> g] : u \in UserAddresses, g \in GenOutcomes}

InitAi ==
    /\ command_text = <<>>
    /\ parsed = Pending
    /\ boards = <<>>
    /\ lists = <<>>
    /\ cards = <<>>
    /\ cache_boards = Empty
    /\ cache_lists = Empty
    /\ channel_mapping = Empty
    /\ returned = [boards |-> {}, lists |-> {}]
    /\ last = Idle
    /\ message = NoMessage
    /\ handled = Unhandled
    /\ call \in AiCalls
    /\ outcome = NoOutcome
    /\ race = NoRace

\* the method has run: the caller holds its return value or its exception
AiDone(method, r) ==
    /\ ~outcome.done
    /\ call.method = method
    /\ outcome' = [done |-> TRUE, raised |-> r.raised, text |-> r.text,
                   address |-> r.address, generated |-> r.generated]
    /\ UNCHANGED <<parse_vars, backend_vars, workflow_vars, chat_vars, call, race>>

Ask ==
    /\ call.method = "ask"
    /\ AiDone("ask", ask(call.query, call.context, call.gen))

CreateTaskDescription ==
    /\ call.method = "create_task_description"
    /\ AiDone("create_task_description",
              create_task_description(call.task_name, call.gen))

AiSummarizeConversation ==
    /\ call.method = "summarize_conversation"
    /\ AiDone("summarize_conversation",
              ai_summarize_conversation(call.context, call.gen))

GetContextualResponse ==
    /\ call.method = "get_contextual_response"
    /\ AiDone("get_contextual_response",
              get_contextual_response(call.query, call.user_address, call.has_thread,
                                      call.workflow_stats, call.gen))

GetTimeResponse ==
    /\ call.method = "get_time_response"
    /\ AiDone("get_time_response",
              get_time_response(call.location, call.time_str, call.user_address,
                                call.gen))

NextAi ==
    \/ Ask
    \/ CreateTaskDescription
    \/ AiSummarizeConversation
    \/ GetContextualResponse
    \/ GetTimeResponse

SpecAi == InitAi /\ [][NextAi]_vars

\* the five methods of AIAssistant that call generate_content, and the text
\* each returns in its except clause
AiMethods ==
    {"ask", "create_task_description", "summarize_conversation",
     "get_contextual_response", "get_time_response"}

FallbackText(method) ==
    IF method = "ask" THEN "ask_apology"
    ELSE IF method = "create_task_description" THEN "no_description"
    ELSE IF method = "summarize_conversation" THEN "summary_apology"
    ELSE IF method = "get_contextual_response" THEN "ask_apology"
    ELSE "time_plain"

\* a method of AIAssistant has ended after generate_content failed in it
GenerationFailed ==
    /\ outcome.done
    /\ call.method \in AiMethods
    /\ outcome.generated
    /\ call.gen # "text"

\* C24: when generate_content fails in a method of AIAssistant, the method
\* raises nothing and returns the fixed text of its except clause
C24_CaughtAtCallSite ==
    GenerationFailed
        => /\ ~outcome.raised
           /\ outcome.text = FallbackText(call.method)

\* C24 witness: summarize_conversation has returned its apology after
\* generate_content raised
C24_Witness ==
    /\ GenerationFailed
    /\ call.method = "summarize_conversation"
    /\ call.gen = "raises"
    /\ outcome.text = "summary_apology"

(***************************************************************************)
(* BitwardenSecretManager._authenticate (src/src/secrets.py).  An argument *)
(* is None, the empty string or a value; each login of the SDK client      *)
(* returns or raises.                                                      *)
(***************************************************************************)
Credentials == {"None", "empty", "value"}

\* `if access_token`, `if client_id and client_secret`
Truthy(x) == x = "value"

\* _authenticate so far: the logins attempted, in order
Attempted(attempts) == [attempts |-> attempts, raised |-> FALSE, by |-> ""]

\* lines 71-77: login_interactive(), and the RuntimeError of the outer except
login_interactive(a, c) ==
    IF c.interactive_ok
    THEN [attempts |-> Append(a.attempts, "interactive"), raised |-> FALSE,
          by |-> "interactive"]
    ELSE [attempts |-> Append(a.attempts, "interactive"), raised |-> TRUE, by |-> ""]

\* lines 59-69: login_with_client_credentials() when both are given
login_with_client_credentials(a, c) ==
    IF Truthy(c.client_id) /\ Truthy(c.client_secret)
    THEN IF c.credentials_ok
         THEN [attempts |-> Append(a.attempts, "client_credentials"),
               raised |-> FALSE, by |-> "client_credentials"]
         ELSE login_interactive(Attempted(Append(a.attempts, "client_credentials")), c)
    ELSE login_interactive(a, c)

\* lines 49-57 without the return of line 54
login_with_access_token_falls_through(a, c) ==
    IF Truthy(c.access_token)
    THEN login_with_client_credentials(Attempted(Append(a.attempts, "access_token")), c)
    ELSE login_with_client_credentials(a, c)

\* lines 49-57: login_with_access_token() when a token is given
login_with_access_token(a, c) ==
    IF Truthy(c.access_token)
    THEN IF c.token_ok
         THEN [attempts |-> Append(a.attempts, "access_token"), raised |-> FALSE,
               by |-> "access_token"]
         ELSE login_with_client_credentials(
                  Attempted(Append(a.attempts, "access_token")), c)
    ELSE login_with_client_credentials(a, c)

\* _authenticate(client_id, client_secret, access_token)
authenticate(c) == login_with_access_token(Attempted(<<>>), c)

AuthCalls ==
    [method : {"_authenticate"}, access_token : Credentials, client_id : Credentials,
     client_secret : Credentials, token_ok : BOOLEAN, credentials_ok : BOOLEAN,
     interactive_ok : BOOLEAN]

InitAuth ==
    /\ command_text = <<>>
    /\ parsed = Pending
    /\ boards = <<>>
    /\ lists = <<>>
    /\ cards = <<>>
    /\ cache_boards = Empty
    /\ cache_lists = Empty
    /\ channel_mapping = Empty
    /\ returned = [boards |-> {}, lists |-> {}]
    /\ last = Idle
    /\ message = NoMessage
    /\ handled = Unhandled
    /\ call \in AuthCalls
    /\ outcome = NoOutcome
    /\ race = NoRace

Authenticate ==
    /\ ~outcome.done
    /\ call.method = "_authenticate"
    /\ outcome' = [done |-> TRUE, raised |-> authenticate(call).raised,
                   attempts |-> authenticate(call).attempts,
                   by |-> authenticate(call).by]
    /\ UNCHANGED <<parse_vars, backend_vars, workflow_vars, chat_vars, call, race>>

NextAuth == Authenticate

SpecAuth == InitAuth /\ [][NextAuth]_vars

\* the three methods in the order the docstring gives them
AuthOrder == <<"access_token", "client_credentials", "interactive">>

\* the call configures the method / the login of the method succeeds
Configured(c, m) ==
    IF m = "access_token" THEN c.access_token = "value"
    ELSE IF m = "client_credentials"
    THEN c.client_id = "value" /\ c.client_secret = "value"
    ELSE TRUE

Succeeds(c, m) ==
    IF m = "access_token" THEN c.token_ok
    ELSE IF m = "client_credentials" THEN c.credentials_ok
    ELSE c.interactive_ok

Authenticated == outcome.done /\ call.method = "_authenticate"

\* C25: _authenticate attempts the methods in the order access token, client
\* credentials, interactive login; a method is attempted exactly when it is
\* configured and every earlier method was not configured or failed; the first
\* login that succeeds ends it; RuntimeError is raised exactly when the
\* interactive login was attempted and failed
C25_InOrderUntilSuccess ==
    Authenticated
        => /\ outcome.attempts
                = SelectSeq(AuthOrder, LAMBDA m : m \in Range(outcome.attempts))
           /\ \A i \in 1..3 :
                  AuthOrder[i] \in Range(outcome.attempts)
                      <=> /\ Configured(call, AuthOrder[i])
                          /\ \A j \in 1..(i - 1) :
                                 \/ ~Configured(call, AuthOrder[j])
                                 \/ ~Succeeds(call, AuthOrder[j])
           /\ outcome.raised
                  <=> /\ "interactive" \in Range(outcome.attempts)
                      /\ ~call.interactive_ok
           /\ ~outcome.raised
                  => /\ outcome.by = outcome.attempts[Len(outcome.attempts)]
                     /\ Succeeds(call, outcome.by)

\* C25 witness: the access token failed, the client credentials succeeded, and
\* the interactive login, which would have failed, was not attempted
C25_Witness ==
    /\ Authenticated
    /\ outcome.attempts = <<"access_token", "client_credentials">>
    /\ ~call.token_ok
    /\ ~call.interactive_ok
    /\ ~outcome.raised

\* all three methods have failed and RuntimeError was raised
C25_AllFailed ==
    /\ Authenticated
    /\ outcome.attempts = AuthOrder
    /\ outcome.raised

(***************************************************************************)
(* The !ai handler of PennyworthBot (src/src/bot.py, ai_assistant).  A     *)
(* local variable of the handler is Unbound until an assignment has run.   *)
(***************************************************************************)
sWhat   == <<"w", "h", "a", "t">>
sAposS  == <<"'", "s">>
sSpIs   == <<" ", "i", "s">>
sTheSp  == <<"t", "h", "e", " ">>
sTime   == <<"t", "i", "m", "e">>
sAt     == <<" ", "a", "t", " ">>
sRatio  == <<"r", "a", "t", "i", "o">>
sWorkflow   == <<"w", "o", "r", "k", "f", "l", "o", "w">>
sDeployment == <<"d", "e", "p", "l", "o", "y", "m", "e", "n", "t">>
sSuccess    == <<"s", "u", "c", "c", "e", "s", "s">>
sLondon == <<"l", "o", "n", "d", "o", "n">>

Alphabet ==
    {"a", "b", "c", "d", "e", "f", "g", "h", "i", "j", "k", "l", "m", "n", "o", "p", "q", "r", "s", "t", "u", "v", "w", "x", "y", "z",
     "A", "B", "C", "D", "E", "F", "G", "H", "I", "J", "K", "L", "M", "N", "O", "P", "Q", "R", "S", "T", "U", "V", "W", "X", "Y", "Z"}

\* the character class [a-zA-Z\s]
LocationChar(c) == c \in Alphabet \/ c \in Whitespace

\* what(?:'s| is) (?:the )?time(?: in | at ) : the texts it matches
TimePrefixes ==
    {sWhat \o v \o <<SP>> \o t \o sTime \o p :
         v \in {sAposS, sSpIs}, t \in {<<>>, sTheSp}, p \in {sIn, sAt}}

\* time_pattern matches at position i of q: a prefix and one location character
TimeMatchAt(q, i) ==
    \E p \in TimePrefixes :
        /\ OccursAt(q, p, i)
        /\ i + Len(p) <= Len(q)
        /\ LocationChar(q[i + Len(p)])

\* time_pattern.search(q) is not None
TimeMatches(q) == \E i \in 1..Len(q) : TimeMatchAt(q, i)

\* group(1) of ^!ai\s+(.+): \s+ takes the whitespace after the prefix but leaves
\* one character to (.+)
RECURSIVE LeadingWs(_)
LeadingWs(s) ==
    IF s = <<>> \/ Head(s) \notin Whitespace THEN 0 ELSE 1 + LeadingWs(Tail(s))

BotQuery(text) ==
    IF LeadingWs(After(text, sBangAi)) = Len(After(text, sBangAi))
    THEN <<After(text, sBangAi)[Len(After(text, sBangAi))]>>
    ELSE Slice(After(text, sBangAi), LeadingWs(After(text, sBangAi)) + 1,
               Len(After(text, sBangAi)))

\* line 592: the query asks for workflow statistics
WorkflowQuery(q) ==
    \/ Contains(Lower(q), sWorkflow)
    \/ Contains(Lower(q), sDeployment)
    \/ Contains(Lower(q), sRatio)
    \/ Contains(Lower(q), sSuccess)

Unbound == "<unbound>"

\* the handler so far: what it said, how often it called generate_content
BotSaid(said, generated) == [raised |-> FALSE, said |-> said, generated |-> generated]
BotRaised(said, generated) == [raised |-> TRUE, said |-> said, generated |-> generated]

\* lines 650-654: generate_content and say
bot_generate(c, generated) ==
    IF c.gen = "text" THEN BotSaid(<<"answer">>, generated + 1)
    ELSE BotRaised(<<>>, generated + 1)

\* lines 591-648: the statistics of the channel history, in a try block of its
\* own whose except clause goes on to line 650
bot_statistics(c, q) ==
    IF ~WorkflowQuery(q) \/ c.history # "deployments" THEN bot_generate(c, 0)
    ELSE IF c.gen = "text" THEN BotSaid(<<"statistics">>, 1)
    ELSE bot_generate(c, 1)

\* lines 575-577: users_info, then get_user_address, which catches its own
bot_asked(c, q) ==
    IF c.users_info_raises THEN BotRaised(<<>>, 0) ELSE bot_statistics(c, q)

\* line 572: the f-string reads the local variable user_address
bot_time_reply(user_address) ==
    IF user_address = Unbound THEN BotRaised(<<>>, 0)
    ELSE BotSaid(<<"time_reply">>, 0)

\* lines 565-573, with user_address as the handler has it there
bot_time(c, q, user_address) ==
    IF TimeMatches(Lower(q)) THEN bot_time_reply(user_address) ELSE bot_asked(c, q)

\* lines 556-573: user_address is assigned at line 561, in the branch that
\* returns, and at line 577
bot_body(c) ==
    IF ~RegexMatches(c.text, sBangAi) THEN BotSaid(<<"how_may_i_assist">>, 0)
    ELSE bot_time(c, BotQuery(c.text), Unbound)

\* lines 655-658: except Exception: say(error message)
BotTry(r) ==
    IF r.raised
    THEN [raised |-> FALSE, said |-> r.said \o <<"error_reply">>,
          generated |-> r.generated, error_path |-> TRUE]
    ELSE [raised |-> FALSE, said |-> r.said, generated |-> r.generated,
          error_path |-> FALSE]

\* ai_assistant(message, say), lines 553-658
ai_assistant(c) == BotTry(bot_body(c))

TimeQueries ==
    {pre \o p \o loc \o suf :
         pre \in {<<>>, <<"a", SP>>}, p \in TimePrefixes,
         loc \in {sLondon, <<SP, "l", "a", SP>>, sOne, <<>>},
         suf \in {<<>>, <<"?">>}}

OtherQueries == {sA, sRatio, sWhat \o <<SP>> \o sTime}

BotCalls ==
    {[method |-> "ai_assistant", text |-> sBangAi \o <<SP>> \o q,
      users_info_raises |-> u, gen |-> g, history |-> h] :
         q \in TimeQueries \cup OtherQueries, u \in BOOLEAN, g \in GenOutcomes,
         h \in {"raises", "none", "deployments"}}

InitBot ==
    /\ command_text = <<>>
    /\ parsed = Pending
    /\ boards = <<>>
    /\ lists = <<>>
    /\ cards = <<>>
    /\ cache_boards = Empty
    /\ cache_lists = Empty
    /\ channel_mapping = Empty
    /\ returned = [boards |-> {}, lists |-> {}]
    /\ last = Idle
    /\ message = NoMessage
    /\ handled = Unhandled
    /\ call \in BotCalls
    /\ outcome = NoOutcome
    /\ race = NoRace

BotAiAssistant ==
    /\ ~outcome.done
    /\ call.method = "ai_assistant"
    /\ RegexMatches(call.text, sBangAi)
    /\ outcome' = [done |-> TRUE, raised |-> ai_assistant(call).raised,
                   said |-> ai_assistant(call).said,
                   generated |-> ai_assistant(call).generated,
                   error_path |-> ai_assistant(call).error_path]
    /\ UNCHANGED <<parse_vars, backend_vars, workflow_vars, chat_vars, call, race>>

NextBot == BotAiAssistant

SpecBot == InitBot /\ [][NextBot]_vars

\* the !ai handler of the bot has answered a query that matches the time pattern
TimeQueryHandled ==
    /\ outcome.done
    /\ call.method = "ai_assistant"
    /\ TimeMatches(Lower(BotQuery(call.text)))

\* C26: a query that matches the time pattern is answered with the time reply,
\* without a call of generate_content and without the error path
C26_TimeReply ==
    TimeQueryHandled
        => /\ outcome.said = <<"time_reply">>
           /\ outcome.generated = 0
           /\ ~outcome.error_path

\* the part that does hold: such a query never reaches generate_content
C26_NoGeneration == TimeQueryHandled => outcome.generated = 0

\* a query that does not match is answered by the model or by the error path
C26_OtherQueries ==
    (outcome.done /\ call.method = "ai_assistant" /\ ~TimeQueryHandled)
        => outcome.said \in {<<"answer">>, <<"statistics">>, <<"error_reply">>}

(***************************************************************************)
(* get_list and create_list alone, on names that may hold a colon.         *)
(***************************************************************************)
bMainColon == <<"m", ":", "t">>
lTodoColon == <<"t", ":", "t">>

KeyBoardNames == {bMain, bMainColon}
KeyListNames == {lTodo, lTodoColon}

GetListKeyed ==
    /\ MayCall
    /\ \E board_name \in KeyBoardNames, list_name \in KeyListNames :
           \E fail \in FailPoints(get_list(St(0), board_name, list_name)) :
               Done(get_list(St(fail), board_name, list_name),
                    "get_list", <<board_name, list_name>>)

CreateListKeyed ==
    /\ MayCall
    /\ \E board_name \in KeyBoardNames, list_name \in KeyListNames :
           \E fail \in FailPoints(create_list(St(0), board_name, list_name)) :
               Done(create_list(St(fail), board_name, list_name),
                    "create_list", <<board_name, list_name>>)

NextKeys ==
    \/ GetListKeyed
    \/ CreateListKeyed

SpecKeys == Init /\ [][NextKeys]_vars

\* get_list has returned a list
GotList == last.op = "get_list" /\ ~last.raised /\ last.value # None

\* the list get_list has returned belongs to the board its board name resolves
\* to and has the list name it was asked for, ignoring case
ListOfItsBoard ==
    /\ FirstByName(boards, last.args[1]) # None
    /\ last.value.board = FirstByName(boards, last.args[1]).id
    /\ Lower(last.value.name) = Lower(last.args[2])

\* no other pair of names has the cache key of the pair get_list was called with
OwnCacheKey ==
    \A board_name \in KeyBoardNames, list_name \in KeyListNames :
        <<board_name, list_name>> # last.args
            => CacheKey(board_name, list_name) # CacheKey(last.args[1], last.args[2])

\* C27: after get_list and create_list calls, a list get_list returns belongs to
\* the board its board name resolves to and has the name asked for ignoring
\* case, and no two pairs of names share a list-cache key
C27_ListOfItsBoard == GotList => (ListOfItsBoard /\ OwnCacheKey)

\* the same for names without a colon, which does hold
C27_WithoutColon ==
    (GotList /\ ~Contains(last.args[1], sColon) /\ ~Contains(last.args[2], sColon))
        => ListOfItsBoard

\* the step is a create_card call that returns success = false
CreateCardFails(l) == l.op = "create_card" /\ ~l.raised /\ ~l.value.success

\* the call issued the backend operation op and the backend did not fail on it
Completed(l, op) ==
    \E i \in 1..Len(l.calls) :
        l.calls[i].op = op /\ (i < Len(l.calls) \/ ~l.failed)

\* C28: a create_card call that returns success = false has created no card on
\* the backend
C28_FailureLeavesNoCard ==
    [][CreateCardFails(last') => cards' = cards]_vars

\* a failure result of create_card leaves a card behind exactly when add_card
\* had completed before the failure
C28_CardExactlyAfterAddCard ==
    [][CreateCardFails(last') => (cards' # cards <=> Completed(last', "add_card"))]_vars

\* the argument names of the claim
TextArguments == {"card_title", "list_name", "card_id", "comment_text"}

\* C29: whenever parse_command puts card_title, list_name, card_id or
\* comment_text into the argument map, the value is a non-empty string
C29_NonEmptyArguments ==
    (parsed.done /\ ~parsed.raised) =>
        \A k \in TextArguments : Has(parsed.args, k) => parsed.args[k] # <<>>

\* C29 witness: a parsed "create" whose remainder starts with "in " after two
\* separators, so that only the strip() of the remainder keeps the title from
\* being empty
C29_Witness ==
    /\ parsed.done /\ ~parsed.raised
    /\ HasPrefix(command_text, sCreate \o <<SP>> \o sIn)
    /\ Has(parsed.args, "card_title")
    /\ parsed.args["card_title"] # <<>>

\* a parsed "comment" that has stored a card id and a comment text
C29_CommentWitness ==
    /\ parsed.done /\ ~parsed.raised
    /\ parsed.command = sComment
    /\ Has(parsed.args, "card_id") /\ Has(parsed.args, "comment_text")

\* the "create" branch of the chat handler never calls create_card with an
\* empty title either
C29_HandlerTitle ==
    (handled.done /\ handled.handler = "handle_trello_command"
        /\ handled.request # None) => handled.request.title # <<>>

(***************************************************************************)
(* Two invocations of get_board, get_list, create_board or create_list on  *)
(* the one TrelloWorkflow object, each in its own thread.  A thread gives  *)
(* way where it waits for the backend: its code between two backend calls  *)
(* is one step, and the backend serving a call is another.  A thread holds *)
(* its position pc, the local variable board, the response resp of the     *)
(* backend call it waited for, and in the end the value it returns.        *)
(***************************************************************************)
Threads == {1, 2}

Invocation(method, args) == [method |-> method, args |-> args]

\* the calls the two threads make
RaceCalls ==
    {Invocation("get_board", <<board_name>>) : board_name \in BoardNames}
        \cup {Invocation("get_list", <<board_name, lTodo>>) : board_name \in BoardNames}
        \cup {Invocation("create_board", <<board_name>>) : board_name \in {bMain, bOther}}
        \cup {Invocation("create_list", <<board_name, lTodo>>) :
                  board_name \in {bMain, bOther}}

Started(c) ==
    [method |-> c.method, args |-> c.args, pc |-> "start", board |-> None,
     resp |-> None, value |-> None]

InitRace ==
    /\ command_text = <<>>
    /\ parsed = Pending
    /\ \E backend \in Backends :
          /\ boards = backend.boards
          /\ lists = backend.lists
          /\ cards = backend.cards
    /\ cache_boards = Empty
    /\ cache_lists = Empty
    /\ channel_mapping = Empty
    /\ returned = [boards |-> {}, lists |-> {}]
    /\ last = Idle
    /\ message = NoMessage
    /\ handled = Unhandled
    /\ call = NoCall
    /\ outcome = NoOutcome
    /\ \E c1 \in RaceCalls, c2 \in RaceCalls :
           race = [start |-> St(0), threads |-> <<Started(c1), Started(c2)>>]

\* the thread goes on to wait for a backend call / returns v
WaitFor(t, backend_call) == [t EXCEPT !.pc = backend_call]
Return(t, v) == [t EXCEPT !.pc = "done", !.value = v]

\* the backend has served the call the thread waited for
Served(t, resp) == [t EXCEPT !.pc = t.pc \o "_returned", !.resp = resp]

\* the step of thread p leaves it as t
Step(p, t) == race' = [race EXCEPT !.threads[p] = t]

race_unchanged == <<parse_vars, cards, channel_mapping, returned, last, chat_vars,
                    method_vars>>

\* get_board, lines 56-60, with a board in hand going on to next
get_board_start(t, next) ==
    IF t.args[1] \in DOMAIN cache_boards
    THEN (IF t.method = "get_board" THEN Return(t, cache_boards[t.args[1]])
          ELSE [t EXCEPT !.pc = next, !.board = cache_boards[t.args[1]]])
    ELSE WaitFor(t, "list_boards")

\* from the call of the method to its first backend call
Start(p) ==
    /\ race.threads[p].pc = "start"
    /\ \E t \in {race.threads[p]} :
          Step(p, CASE t.method = "get_board" -> get_board_start(t, "")
                    [] t.method = "get_list" ->
                          IF CacheKey(t.args[1], t.args[2]) \in DOMAIN cache_lists
                          THEN Return(t, cache_lists[CacheKey(t.args[1], t.args[2])])
                          ELSE get_board_start(t, "list_lists")
                    [] t.method = "create_board" -> WaitFor(t, "add_board")
                    [] t.method = "create_list" -> get_board_start(t, "add_list"))
    /\ UNCHANGED <<boards, lists, cache_boards, cache_lists, race_unchanged>>

\* the backend serves client.list_boards()
ListBoards(p) ==
    /\ race.threads[p].pc = "list_boards"
    /\ Step(p, Served(race.threads[p], boards))
    /\ UNCHANGED <<boards, lists, cache_boards, cache_lists, race_unchanged>>

\* the board the loop of lines 61-64 stops at, taking the first board whatever
\* its name
race_board_any(all_boards, board_name) == IF all_boards = <<>> THEN 0 ELSE 1

\* the board the loop of lines 61-64 stops at: 0 for none
race_board(all_boards, board_name) == FirstMatch(all_boards, board_name)

\* get_board, lines 61-67, and what its caller does with the board
GotBoards(p) ==
    /\ race.threads[p].pc = "list_boards_returned"
    /\ \E t \in {race.threads[p]}, i \in {race_board(race.threads[p].resp,
                                                     race.threads[p].args[1])} :
          IF i # 0
          THEN /\ cache_boards' = Put(cache_boards, t.args[1], t.resp[i])
               /\ Step(p, CASE t.method = "get_board" -> Return(t, t.resp[i])
                            [] t.method = "get_list" ->
                                  [t EXCEPT !.pc = "list_lists", !.board = t.resp[i]]
                            [] t.method = "create_list" ->
                                  [t EXCEPT !.pc = "add_list", !.board = t.resp[i]])
          ELSE /\ cache_boards' = cache_boards
               /\ Step(p, IF t.method = "create_list"
                          THEN Return(t, Failure("Board not found"))
                          ELSE Return(t, None))
    /\ UNCHANGED <<boards, lists, cache_lists, race_unchanged>>

\* the backend serves board.list_lists()
ListLists(p) ==
    /\ race.threads[p].pc = "list_lists"
    /\ Step(p, Served(race.threads[p], ListsOf(St(0), race.threads[p].board.id)))
    /\ UNCHANGED <<boards, lists, cache_boards, cache_lists, race_unchanged>>

\* get_list, lines 88-94
GotLists(p) ==
    /\ race.threads[p].pc = "list_lists_returned"
    /\ \E t \in {race.threads[p]}, i \in {FirstMatch(race.threads[p].resp,
                                                    race.threads[p].args[2])} :
          IF i # 0
          THEN /\ cache_lists' = Put(cache_lists, CacheKey(t.args[1], t.args[2]),
                                     t.resp[i])
               /\ Step(p, Return(t, t.resp[i]))
          ELSE /\ cache_lists' = cache_lists
               /\ Step(p, Return(t, None))
    /\ UNCHANGED <<boards, lists, cache_boards, race_unchanged>>

\* the backend serves client.add_board()
AddBoard(p) ==
    /\ race.threads[p].pc = "add_board"
    /\ boards' = Append(boards, NewBoard(St(0), race.threads[p].args[1]))
    /\ Step(p, Served(race.threads[p], NewBoard(St(0), race.threads[p].args[1])))
    /\ UNCHANGED <<lists, cache_boards, cache_lists, race_unchanged>>

\* create_board, lines 208-216
AddedBoard(p) ==
    /\ race.threads[p].pc = "add_board_returned"
    /\ \E t \in {race.threads[p]} :
          /\ cache_boards' = Put(cache_boards, t.args[1], t.resp)
          /\ Step(p, Return(t, [success |-> TRUE, board_id |-> t.resp.id,
                                board_name |-> t.resp.name]))
    /\ UNCHANGED <<boards, lists, cache_lists, race_unchanged>>

\* the backend serves board.add_list()
AddList(p) ==
    /\ race.threads[p].pc = "add_list"
    /\ \E t \in {race.threads[p]} :
          /\ lists' = Append(lists, NewList(St(0), t.args[2], t.board))
          /\ Step(p, Served(t, NewList(St(0), t.args[2], t.board)))
    /\ UNCHANGED <<boards, cache_boards, cache_lists, race_unchanged>>

\* create_list, lines 241-246
AddedList(p) ==
    /\ race.threads[p].pc = "add_list_returned"
    /\ \E t \in {race.threads[p]} :
          /\ cache_lists' = Put(cache_lists, CacheKey(t.args[1], t.args[2]), t.resp)
          /\ Step(p, Return(t, [success |-> TRUE, list_name |-> t.args[2]]))
    /\ UNCHANGED <<boards, lists, cache_boards, race_unchanged>>

NextRace ==
    \/ \E p \in Threads : Start(p)
    \/ \E p \in Threads : ListBoards(p)
    \/ \E p \in Threads : GotBoards(p)
    \/ \E p \in Threads : ListLists(p)
    \/ \E p \in Threads : GotLists(p)
    \/ \E p \in Threads : AddBoard(p)
    \/ \E p \in Threads : AddedBoard(p)
    \/ \E p \in Threads : AddList(p)
    \/ \E p \in Threads : AddedList(p)

SpecRace == InitRace /\ [][NextRace]_vars

\* the method of one invocation run alone from the record st
Alone(st, c) ==
    CASE c.method = "get_board" -> get_board(st, c.args[1])
      [] c.method = "get_list" -> get_list(st, c.args[1], c.args[2])
      [] c.method = "create_board" -> create_board(st, c.args[1])
      [] c.method = "create_list" -> create_list(st, c.args[1], c.args[2])

\* what invocation a and then invocation b return when a has ended before b
\* starts
OneAfterTheOther(a, b) ==
    <<Alone(race.start, a).value, Alone(Alone(race.start, a).st, b).value>>

BothDone == \A p \in Threads : race.threads[p].pc = "done"

\* every entry of the board cache is a board whose name is its key ignoring case
BoardCacheSound ==
    \A k \in DOMAIN cache_boards : Lower(cache_boards[k].name) = Lower(k)

\* the two invocations have returned what they return in one of the two orders
Serial ==
    \/ <<race.threads[1].value, race.threads[2].value>>
           = OneAfterTheOther(race.threads[1], race.threads[2])
    \/ <<race.threads[2].value, race.threads[1].value>>
           = OneAfterTheOther(race.threads[2], race.threads[1])

\* C30: under every interleaving of two invocations of get_board, get_list,
\* create_board or create_list, every board-cache entry maps its key to a board
\* of that name ignoring case, and the two invocations return what they would
\* return in one of the two sequential orders
C30_SoundAndSerial == BoardCacheSound /\ (BothDone => Serial)

\* C30 witness: get_board("m") has returned the old board and cached it after
\* create_board("m") had cached the new one, which no sequential order does
C30_Witness ==
    /\ BothDone
    /\ race.threads[1].method = "get_board" /\ race.threads[1].args = <<bMain>>
    /\ race.threads[2].method = "create_board" /\ race.threads[2].args = <<bMain>>
    /\ race.threads[1].value # None
    /\ race.threads[1].value.id = 1
    /\ race.threads[2].value.board_id > 1
    /\ cache_boards[bMain].id = 1

\* the board cache after the two invocations is that of one of the two orders:
\* this goes beyond what the invocations return, and it does not hold
C30_SerialCaches ==
    BothDone =>
        \E a \in Threads, b \in Threads :
            /\ a # b
            /\ cache_boards
                   = Alone(Alone(race.start, race.threads[a]).st, race.threads[b])
                         .st.cache_boards

=============================================================================
